---------------------------- MODULE Spec2Model ----------------------------
(***************************************************************************)
(* Model of VLANVision's device and topology discovery engine:             *)
(*   src/src/network/topology_mapper.py  (TopologyMapper)                  *)
(*   src/src/network/discovery.py        (NetworkDiscovery)                *)
(*                                                                         *)
(* Text is modelled as a sequence of one-character strings so that         *)
(* str.lower(), the `in` substring test and f-string formatting are        *)
(* computed, not assumed.  An IPv4 address "10.0.0.<n>" is modelled by the *)
(* number n; IpStr(n) is its text.                                         *)
(***************************************************************************)
EXTENDS Integers, Sequences, FiniteSets, TLC

\* ------------------------------------------------------------------ bounds
NumHosts == 3        \* addresses 10.0.0.1 .. 10.0.0.NumHosts of the mock network
MaxEntries == 2      \* neighbor-table entries in the whole mock network
MaxRuns == 2         \* discover_topology calls in one behaviour
ProbeCap == 2        \* the per-address probe counter stops counting here
MaxInfos == 2        \* link infos the stubbed link-detail getters return in all
MaxScans == 2        \* discover_network calls in one behaviour
MaxWorkers == 2      \* the largest max_workers argument tried
MaxExports == 2      \* export_topology calls in one behaviour
MaxVlanRows == 2     \* rows of the first host's VLAN table walk
MaxRingInfos == 3    \* link infos the getters' double returns in the ring runs
MaxWords == 2        \* words of a system description or of a hostname
MaxVlanCalls == 4    \* VLANManager calls that change the table
MaxArpHosts == 12    \* hosts seen in an ARP table only

IPs == 1..NumHosts

\* a seed that is no address: the text "300.1.1.1"
BadSeed == NumHosts + 1

\* what a caller may pass as a seed
SeedAddrs == IPs \cup {BadSeed}

\* hosts that run no SNMP agent and show up in ARP tables only:
\* 10.0.0.11 .. 10.0.0.22
ArpHosts == 11..(10 + MaxArpHosts)

\* every address text of the model
Addrs == SeedAddrs \cup ArpHosts

\* ------------------------------------------------------------------ text
kw_cisco == <<"c","i","s","c","o">>
kw_catalyst == <<"c","a","t","a","l","y","s","t">>
kw_switch == <<"s","w","i","t","c","h">>
kw_router == <<"r","o","u","t","e","r">>
kw_ios_xr == <<"i","o","s"," ","x","r">>
kw_asa == <<"a","s","a">>
kw_firewall == <<"f","i","r","e","w","a","l","l">>
kw_access_point == <<"a","c","c","e","s","s"," ","p","o","i","n","t">>
kw_ap == <<"a","p">>
kw_juniper == <<"j","u","n","i","p","e","r">>
kw_junos == <<"j","u","n","o","s">>
kw_ex == <<"e","x">>
kw_mx == <<"m","x">>
kw_srx == <<"s","r","x">>
kw_arista == <<"a","r","i","s","t","a">>
kw_hp == <<"h","p">>
kw_aruba == <<"a","r","u","b","a">>
kw_core == <<"c","o","r","e">>
kw_backbone == <<"b","a","c","k","b","o","n","e">>
kw_dist == <<"d","i","s","t">>
kw_distribution == <<"d","i","s","t","r","i","b","u","t","i","o","n">>
kw_access == <<"a","c","c","e","s","s">>
kw_acc == <<"a","c","c">>
kw_edge == <<"e","d","g","e">>
kw_dmz == <<"d","m","z">>
kw_internet == <<"i","n","t","e","r","n","e","t">>

\* str.lower() on the letters A to Z
ToLower ==
    [c \in {"A","B","C","D","E","F","G","H","I","J","K","L","M","N","O","P","Q","R","S","T","U","V","W","X","Y","Z"} |->
        CASE c = "A" -> "a" [] c = "B" -> "b" [] c = "C" -> "c" [] c = "D" -> "d"
          [] c = "E" -> "e" [] c = "F" -> "f" [] c = "G" -> "g" [] c = "H" -> "h"
          [] c = "I" -> "i" [] c = "J" -> "j" [] c = "K" -> "k" [] c = "L" -> "l"
          [] c = "M" -> "m" [] c = "N" -> "n" [] c = "O" -> "o" [] c = "P" -> "p"
          [] c = "Q" -> "q" [] c = "R" -> "r" [] c = "S" -> "s" [] c = "T" -> "t"
          [] c = "U" -> "u" [] c = "V" -> "v" [] c = "W" -> "w" [] c = "X" -> "x"
          [] c = "Y" -> "y" [] c = "Z" -> "z"]

LowerChar(c) == IF c \in DOMAIN ToLower THEN ToLower[c] ELSE c

\* (the concatenation makes TLC build the tuple once instead of keeping a
\* function it re-evaluates at every index)
Lower(s) == [i \in 1..Len(s) |-> LowerChar(s[i])] \o <<>>

\* Python's `sub in s` on strings
Contains(s, sub) ==
    \E i \in 0..(Len(s) - Len(sub)) : \A j \in 1..Len(sub) : s[i + j] = sub[j]

\* any(x in s for x in subs)
ContainsAny(s, subs) == \E x \in subs : Contains(s, x)

\* str(n) for the small numbers of the mock network
Digit(n) ==
    CASE n = 0 -> "0" [] n = 1 -> "1" [] n = 2 -> "2" [] n = 3 -> "3"
      [] n = 4 -> "4" [] n = 5 -> "5" [] n = 6 -> "6" [] n = 7 -> "7"
      [] n = 8 -> "8" [] OTHER -> "9"

\* the text of the address modelled by n
IpStr(n) ==
    IF n = BadSeed THEN <<"3","0","0",".","1",".","1",".","1">>
    ELSE <<"1","0",".","0",".","0",".">>
         \o (IF n < 10 THEN <<Digit(n)>> ELSE <<Digit(n \div 10), Digit(n % 10)>>)

\* sep.join(ws)
RECURSIVE JoinWords(_, _)
JoinWords(ws, sep) ==
    IF ws = <<>> THEN <<>>
    ELSE IF Len(ws) = 1 THEN ws[1]
    ELSE ws[1] \o sep \o JoinWords(Tail(ws), sep)

\* the texts of at most MaxWords words
Texts(words, sep) ==
    {JoinWords(ws, sep) : ws \in UNION {[1..n -> words] : n \in 0..MaxWords}}

\* ------------------------------------------------------------ classifier
\* TopologyMapper._identify_device_type: an if/elif chain on the vendor
\* keyword; inside a vendor branch a description that matches no device-type
\* keyword falls through to the final return.
\* (desc_lower is bound through a one-element set so that it is computed once)
IdentifyDeviceType(sys_description) ==
    LET generic == <<"network_device", "Unknown">>
        Chain(d) ==
        IF Contains(d, kw_cisco) THEN
            IF Contains(d, kw_catalyst) \/ Contains(d, kw_switch)
                THEN <<"switch", "Cisco">>
            ELSE IF Contains(d, kw_router) \/ Contains(d, kw_ios_xr)
                THEN <<"router", "Cisco">>
            ELSE IF Contains(d, kw_asa) \/ Contains(d, kw_firewall)
                THEN <<"firewall", "Cisco">>
            ELSE IF Contains(d, kw_access_point) \/ Contains(d, kw_ap)
                THEN <<"access_point", "Cisco">>
            ELSE generic
        ELSE IF Contains(d, kw_juniper) \/ Contains(d, kw_junos) THEN
            IF Contains(d, kw_ex) THEN <<"switch", "Juniper">>
            ELSE IF Contains(d, kw_mx) \/ Contains(d, kw_srx)
                THEN <<"router", "Juniper">>
            ELSE generic
        ELSE IF Contains(d, kw_arista) THEN <<"switch", "Arista">>
        ELSE IF Contains(d, kw_hp) \/ Contains(d, kw_aruba) THEN
            IF Contains(d, kw_switch) THEN <<"switch", "HP">>
            ELSE IF Contains(d, kw_ap) THEN <<"access_point", "HP">>
            ELSE generic
        ELSE IF Contains(d, kw_switch) THEN <<"switch", "Unknown">>
        ELSE IF Contains(d, kw_router) THEN <<"router", "Unknown">>
        ELSE generic
    IN  CHOOSE r \in {Chain(desc_lower) : desc_lower \in {Lower(sys_description)}} : TRUE

\* mutant: the device type is looked at before the hostname
DetermineDeviceRoleTypeFirst(hostname, device_type) ==
    LET Chain(h) ==
        IF device_type = "server" THEN "server"
        ELSE IF device_type \in {"workstation", "pc", "laptop"} THEN "endpoint"
        ELSE IF device_type = "router" THEN "edge"
        ELSE IF device_type = "switch" THEN "access"
        ELSE IF ContainsAny(h, {kw_core, kw_backbone}) THEN "core"
        ELSE IF ContainsAny(h, {kw_dist, kw_distribution}) THEN "distribution"
        ELSE IF ContainsAny(h, {kw_access, kw_acc}) THEN "access"
        ELSE IF ContainsAny(h, {kw_edge, kw_dmz, kw_internet}) THEN "edge"
        ELSE "access"
    IN  CHOOSE r \in {Chain(hostname_lower) : hostname_lower \in {Lower(hostname)}} : TRUE

\* TopologyMapper._determine_device_role
DetermineDeviceRole(hostname, device_type) ==
    LET Chain(h) ==
        IF ContainsAny(h, {kw_core, kw_backbone}) THEN "core"
        ELSE IF ContainsAny(h, {kw_dist, kw_distribution}) THEN "distribution"
        ELSE IF ContainsAny(h, {kw_access, kw_acc}) THEN "access"
        ELSE IF ContainsAny(h, {kw_edge, kw_dmz, kw_internet}) THEN "edge"
        ELSE IF device_type = "server" THEN "server"
        ELSE IF device_type \in {"workstation", "pc", "laptop"} THEN "endpoint"
        ELSE IF device_type = "router" THEN "edge"
        ELSE IF device_type = "switch" THEN "access"
        ELSE "access"
    IN  CHOOSE r \in {Chain(hostname_lower) : hostname_lower \in {Lower(hostname)}} : TRUE

\* ------------------------------------------- ipaddress.ip_network (stdlib)
\* The ranges are text without ':' (the IPv6 parser ip_network tries second
\* rejects all of them), so ip_network is IPv4Network(text, strict=False).
DigitVal ==
    [c \in {"0","1","2","3","4","5","6","7","8","9"} |->
        CASE c = "0" -> 0 [] c = "1" -> 1 [] c = "2" -> 2 [] c = "3" -> 3
          [] c = "4" -> 4 [] c = "5" -> 5 [] c = "6" -> 6 [] c = "7" -> 7
          [] c = "8" -> 8 [] c = "9" -> 9]

\* str.split(sep) for a one-character separator
RECURSIVE Split(_, _)
Split(s, sep) ==
    IF \A i \in 1..Len(s) : s[i] # sep THEN <<s>>
    ELSE LET i == CHOOSE k \in 1..Len(s) :
                      s[k] = sep /\ \A j \in 1..(k - 1) : s[j] # sep
         IN  <<SubSeq(s, 1, i - 1)>> \o Split(SubSeq(s, i + 1, Len(s)), sep)

\* str.isascii() and str.isdigit(): false for the empty text
IsDigits(s) == s # <<>> /\ \A i \in 1..Len(s) : s[i] \in DOMAIN DigitVal

\* int(s, 10) of a text of digits
RECURSIVE ToInt(_)
ToInt(s) ==
    IF s = <<>> THEN 0
    ELSE ToInt(SubSeq(s, 1, Len(s) - 1)) * 10 + DigitVal[s[Len(s)]]

\* mutant: _parse_octet without its range test
OctetOkUnchecked(octet_str) ==
    /\ IsDigits(octet_str)
    /\ Len(octet_str) <= 3
    /\ ~(octet_str # <<"0">> /\ octet_str[1] = "0")

\* IPv4Address._parse_octet accepts octet_str: decimal digits, at most three,
\* no leading zero, value at most 255
OctetOk(octet_str) ==
    /\ IsDigits(octet_str)
    /\ Len(octet_str) <= 3
    /\ ~(octet_str # <<"0">> /\ octet_str[1] = "0")
    /\ ToInt(octet_str) <= 255

\* IPv4Address._ip_int_from_string: <<the four octets>>, or <<>> when it
\* raises AddressValueError
ParseAddress(ip_str) ==
    IF ip_str = <<>> THEN <<>>
    ELSE LET octets == Split(ip_str, ".")
         IN  IF Len(octets) = 4 /\ \A k \in 1..4 : OctetOk(octets[k])
             THEN << [k \in 1..4 |-> ToInt(octets[k])] >>
             ELSE <<>>

\* the number of leading one bits of a netmask octet, 9 when it is none
OctetOnes(o) ==
    CASE o = 0 -> 0 [] o = 128 -> 1 [] o = 192 -> 2 [] o = 224 -> 3 [] o = 240 -> 4
      [] o = 248 -> 5 [] o = 252 -> 6 [] o = 254 -> 7 [] o = 255 -> 8 [] OTHER -> 9

\* IPv4Network._prefix_from_ip_int: <<prefix length>> of a netmask, else <<>>
PrefixFromIpInt(mask) ==
    LET ones == [k \in 1..4 |-> OctetOnes(mask[k])]
    IN  IF /\ \A k \in 1..4 : ones[k] <= 8
           /\ \A k \in 1..3 : ones[k] < 8 => ones[k + 1] = 0
        THEN <<ones[1] + ones[2] + ones[3] + ones[4]>>
        ELSE <<>>

\* IPv4Network._make_netmask on the text after '/': a prefix length, a
\* netmask or a host mask; <<>> when it raises NetmaskValueError
MakeNetmask(arg) ==
    IF IsDigits(arg)
    THEN (IF ToInt(arg) <= 32 THEN <<ToInt(arg)>> ELSE <<>>)
    ELSE LET mask == ParseAddress(arg)
         IN  IF mask = <<>> THEN <<>>
             ELSE IF PrefixFromIpInt(mask[1]) # <<>> THEN PrefixFromIpInt(mask[1])
             ELSE PrefixFromIpInt([k \in 1..4 |-> 255 - mask[1][k]])

RECURSIVE Pow2(_)
Pow2(n) == IF n = 0 THEN 1 ELSE 2 * Pow2(n - 1)

\* the number of bits of octet k (1..4) that a prefix of length p covers
OctetBits(p, k) ==
    IF p >= 8 * k THEN 8 ELSE IF p <= 8 * (k - 1) THEN 0 ELSE p - 8 * (k - 1)

\* address & netmask (strict=False drops the host bits)
MaskAddress(addr, p) ==
    [k \in 1..4 |-> addr[k] - (addr[k] % Pow2(8 - OctetBits(p, k)))]

\* ipaddress.ip_network(network_range, strict=False): <<network>>, or <<>>
\* when it raises ValueError
IpNetwork(text) ==
    LET parts == Split(text, "/")
    IN  IF Len(parts) > 2 THEN <<>>
        ELSE LET addr == ParseAddress(parts[1])
                 prefix == IF Len(parts) = 2 THEN MakeNetmask(parts[2])
                           ELSE <<32>>
             IN  IF addr = <<>> \/ prefix = <<>> THEN <<>>
                 ELSE << [network_address |-> MaskAddress(addr[1], prefix[1]),
                          prefixlen |-> prefix[1]] >>

\* the addresses of a network whose prefix is 24 bits or longer, ascending
\* (the ranges scanned here all are)
NetworkAddresses(network) ==
    LET a == network.network_address
    IN  [i \in 1..Pow2(32 - network.prefixlen) |->
            <<a[1], a[2], a[3], a[4] + i - 1>>]

\* IPv4Network.hosts(): without the network and broadcast address, except
\* for /31 and /32 networks
NetworkHosts(network) ==
    LET all == NetworkAddresses(network)
    IN  IF network.prefixlen >= 31 THEN all ELSE SubSeq(all, 2, Len(all) - 1)

\* ------------------------------------------------------- the mock network
Sources == {"cdp", "lldp", "arp"}

\* one entry of a neighbor table: device d lists address t under source s
Slots == IPs \X Sources \X IPs

VARIABLES
    net,             \* the rows every device's CDP, LLDP and ARP table walk delivers
    mute,            \* the host whose identification GETs get no answer (0: none)
    link_stub,       \* per device, what a test double of the two link-detail
                     \* getters returns (used by LinkSpec only)
    vlan_walk,       \* per device, the last index of every row its VLAN table
                     \* walk delivers, in the order delivered
    cancelled,       \* the calls the caller has interrupted (KeyboardInterrupt
                     \* in the calling thread): the number of the
                     \* discover_topology call and of the discover_network
                     \* call, 0 for none
    nodes,           \* TopologyMapper.nodes: node id -> NetworkNode
    links,           \* TopologyMapper.links
    topology_graph,  \* TopologyMapper.topology_graph (nx.Graph)
    pc,              \* "idle": new engine; "crawl": in discover_topology's loop;
                     \* "done": discover_topology has returned or raised
    seed_devices,    \* the argument of the call in progress (or of the last call)
    discovered,      \* discover_topology's local set
    to_discover,     \* discover_topology's local set (the frontier)
    probes,          \* calls of _discover_device_node per address, this call
    reported,        \* what _discover_neighbors returned per address, this call
    calls,           \* discover_topology calls made on this engine instance
    runs,            \* discover_topology calls made in this behaviour
    outcome,         \* how the last call ended: "none", "returned", "raised"
    topology_data,   \* <<analysis>> when the last call returned one, else <<>>
    history,         \* one record per finished call, oldest first
    export_format,   \* the format argument of the last export_topology call
    export_outcome,  \* how it ended: "none", "returned", "ValueError", "raised"
    export_text,     \* <<what the returned text holds>>, <<>> when none returned
    exports,         \* export_topology calls made in this behaviour
    arg_description, \* the system description handed to the two classifiers
    ret_classify,    \* <<what _identify_device_type returned for it>>, <<>> before
    ret_identify,    \* <<what _identify_device returned for it>>, <<>> before
    arg_hostname,    \* the hostname handed to _determine_device_role
    arg_device_type, \* the device type handed to it
    ret_role,        \* <<what it returned>>, <<>> before
    vlan_rows,       \* the rows of the vlans table, in insertion order
    vlan_ret,        \* the last VLANManager call: its name, argument and result
    vlan_log,        \* the VLANManager calls that changed the table, oldest first
    up,              \* the hosts that are switched on (they answer ARP)
    arp_fails,       \* TRUE: sending the ARP request raises (no raw-socket right)
    listening,       \* host -> the TCP ports on which it accepts a connection
    sock_errors,     \* the ports on which creating or connecting the socket raises
    discovered_devices, \* NetworkDiscovery.discovered_devices
    scan_pc,         \* "idle": new scanner; "pool": in discover_network's thread
                     \* pool block; "done": discover_network returned or raised
    network_range,   \* the network_range argument of the call (text)
    max_workers,     \* the max_workers argument of the call
    live_hosts,      \* what _arp_scan returned
    pending,         \* indices of live_hosts whose future waits for a worker
    running,         \* indices of live_hosts whose _discover_device is running
    scan_discovered, \* discover_network's local list `discovered`
    scan_probes,     \* probes issued by the call: ARP requests, TCP connects,
                     \* SNMP GETs
    scan_outcome,    \* how the last call ended: "none", "returned", "ValueError"
    devices_before,  \* discovered_devices when the call was entered
    scans            \* discover_network calls made in this behaviour

world == <<net, mute, link_stub, vlan_walk, cancelled, up, arp_fails, listening,
           sock_errors>>
engine == <<nodes, links, topology_graph>>

\* the state of the TopologyMapper and of the call of it in progress
\* the last export_topology call
exporter == <<export_format, export_outcome, export_text, exports>>

\* direct calls of the classifiers
classifier == <<arg_description, ret_classify, ret_identify,
                arg_hostname, arg_device_type, ret_role>>

\* the vlans table and the calls of the VLANManager
manager == <<vlan_rows, vlan_ret, vlan_log>>

mapper == <<engine, pc, seed_devices, discovered, to_discover, probes, reported,
            calls, runs, outcome, topology_data, history, exporter, classifier,
            manager>>

\* the state of the NetworkDiscovery and of the call of it in progress
scanner == <<discovered_devices, scan_pc, network_range, max_workers, live_hosts,
             pending, running, scan_discovered, scan_probes, scan_outcome,
             devices_before, scans>>

vars == <<world, mapper, scanner>>

\* the caller has interrupted no call
NotCancelled == [mapper |-> 0, scanner |-> 0]

\* no device delivers a row of the VLAN table
NoVlanRows == [ip \in IPs |-> <<>>]

\* ascending sequence of a finite set of numbers
RECURSIVE SortedSeq(_)
SortedSeq(S) ==
    IF S = {} THEN <<>>
    ELSE LET m == CHOOSE x \in S : \A y \in S : x <= y
         IN  <<m>> \o SortedSeq(S \ {m})

\* the rows a walk of device ip's table s delivers before it ends or breaks off
\* on an error indication (a walk that fails at once delivers none), in index
\* order
Table(ip, s) == SortedSeq({t \in Addrs : <<ip, s, t>> \in net})

\* sysName, sysDescr and sysLocation of the mock devices
SysName ==
    [ip \in IPs |->
        CASE ip = 1 -> <<"c","o","r","e","-","s","w","1">>
          [] ip = 2 -> <<"D","i","s","t","-","R","2">>
          [] ip = 3 -> <<"B","a","c","k","b","o","n","e","3">>
          [] OTHER -> <<"h","o","s","t">> \o <<Digit(ip)>>]

SysDescr ==
    [ip \in IPs |->
        CASE ip = 1 -> <<"C","i","s","c","o"," ","I","O","S"," ","S","o","f","t","w","a","r","e",","," ","C","a","t","a","l","y","s","t">>
          [] ip = 2 -> <<"J","U","N","O","S"," ","m","x"," ","r","o","u","t","e","r">>
          [] OTHER -> <<"L","i","n","u","x"," ","b","o","x">>]

SysLocation == [ip \in IPs |-> <<"l","a","b">>]

\* ------------------------------------------------------------ SNMP probes
\* TopologyMapper._snmp_get: the value as text, or None (here <<>>) on a
\* timeout, a transport error, an error indication or any exception.
\* An optional text is <<>> for None and <<text>> for a value.
SnmpGet(ip, oid) ==
    IF ip = mute \/ ip \notin IPs THEN <<>>
    ELSE CASE oid = "sysName" -> <<SysName[ip]>>
           [] oid = "sysDescr" -> <<SysDescr[ip]>>
           [] oid = "sysLocation" -> <<SysLocation[ip]>>

\* Python's `x or default` on an optional text (None and "" are both falsy)
OrElse(opt, default) == IF opt = <<>> \/ opt[1] = <<>> THEN default ELSE opt[1]

\* ipaddress.ip_address accepts the text of a (computed once per address)
ValidAddr == [a \in Addrs |-> ParseAddress(IpStr(a)) # <<>>]

\* TopologyMapper._is_valid_ip
IsValidIp(a) == ValidAddr[a]

\* the loop body shared by _get_cdp_neighbors / _get_lldp_neighbors /
\* _get_mac_table_neighbors: keep the rows that are valid addresses
ValidRows(rows) == SelectSeq(rows, IsValidIp)

\* _get_cdp_neighbors, _get_lldp_neighbors: rows is what the walk delivered
\* before it ended or broke off on an error
GetCdpNeighbors(rows) == ValidRows(rows)
GetLldpNeighbors(rows) == ValidRows(rows)

MacNeighborLimit == 10

\* mutant: the whole list, without the slice
GetMacTableNeighborsUnlimited(rows) == ValidRows(rows)

\* _get_mac_table_neighbors: neighbors[:10]
GetMacTableNeighbors(rows) ==
    LET v == ValidRows(rows)
    IN  SubSeq(v, 1, IF Len(v) < MacNeighborLimit THEN Len(v) ELSE MacNeighborLimit)

Range(q) == {q[i] : i \in 1..Len(q)}

\* mutant: a later source is consulted only while the list is still empty
DiscoverNeighborsFirstWins(cdp_rows, lldp_rows, arp_rows) ==
    IF GetCdpNeighbors(cdp_rows) # <<>> THEN Range(GetCdpNeighbors(cdp_rows))
    ELSE IF GetLldpNeighbors(lldp_rows) # <<>> THEN Range(GetLldpNeighbors(lldp_rows))
    ELSE Range(GetMacTableNeighbors(arp_rows))

\* TopologyMapper._discover_neighbors: CDP and LLDP results are both appended;
\* the MAC/ARP fallback is consulted only when the list is still empty.
\* list(set(neighbors)) has no defined order: the result is a set.
DiscoverNeighbors(cdp_rows, lldp_rows, arp_rows) ==
    LET neighbors == GetCdpNeighbors(cdp_rows) \o GetLldpNeighbors(lldp_rows)
    IN  IF neighbors = <<>>
        THEN Range(neighbors \o GetMacTableNeighbors(arp_rows))
        ELSE Range(neighbors)

\* the rows of device ip's VLAN table walk (none from a host that does not
\* answer or from an address that is none)
VlanWalk(ip) == IF ip = mute \/ ip \notin IPs THEN <<>> ELSE vlan_walk[ip]

\* mutant: every index of the walk is kept
GetDeviceVlansUnfiltered(rows) == SortedSeq({rows[i] : i \in DOMAIN rows})

\* TopologyMapper._get_device_vlans: rows holds int(oid_parts[-1]) of every
\* row; sorted(set(...)) of the indices in 1..4094
GetDeviceVlans(rows) ==
    SortedSeq({rows[i] : i \in {j \in DOMAIN rows : 1 <= rows[j] /\ rows[j] <= 4094}})

\* mutant: no node for a device whose sysName GET gets no answer
DiscoverDeviceNodeStrict(ip) ==
    IF SnmpGet(ip, "sysName") = <<>> THEN <<>>
    ELSE << [id |-> ip, ip_address |-> ip, hostname |-> SnmpGet(ip, "sysName")[1],
             device_type |-> "unknown", role |-> "access", vendor |-> "unknown",
             location |-> SnmpGet(ip, "sysLocation"),
             vlans |-> GetDeviceVlans(VlanWalk(ip))] >>

\* TopologyMapper._discover_device_node: <<node>>, or <<>> for None.  Every
\* probe it makes swallows its own errors, so the try block completes and a
\* node is always returned.  (hostname and the classifier's result are
\* bound through one-element sets so that each is computed once.)
DiscoverDeviceNode(ip) ==
    LET location == SnmpGet(ip, "sysLocation")
        Node(hostname, tv) ==
            << [id |-> ip, ip_address |-> ip, hostname |-> hostname,
                device_type |-> tv[1], role |-> DetermineDeviceRole(hostname, tv[1]),
                vendor |-> tv[2], location |-> location,
                vlans |-> GetDeviceVlans(VlanWalk(ip))] >>
    IN  CHOOSE node \in
            {Node(hostname, type_vendor) :
                hostname \in {OrElse(SnmpGet(ip, "sysName"),
                                     <<"d","e","v","i","c","e","-">> \o IpStr(ip))},
                type_vendor \in
                    {IdentifyDeviceType(OrElse(SnmpGet(ip, "sysDescr"), <<>>))}} : TRUE

\* ------------------------------------------------------------------ links
kw_trunk == <<"t","r","u","n","k">>
kw_gi00 == <<"g","i","0","/","0">>
kw_te == <<"t","e">>
kw_fo == <<"f","o">>
kw_uplink == <<"u","p","l","i","n","k">>
kw_po == <<"p","o">>
kw_port_channel == <<"p","o","r","t","-","c","h","a","n","n","e","l">>

\* mutant: the aggregate test comes before the uplink test
DetermineLinkTypeAggregateFirst(link_info) ==
    LET local_if == Lower(link_info.local_interface)
        remote_if == Lower(link_info.remote_interface)
    IN  IF Contains(local_if, kw_trunk) \/ Contains(remote_if, kw_trunk) THEN "trunk"
        ELSE IF Contains(local_if, kw_po) \/ Contains(local_if, kw_port_channel)
            THEN "aggregate"
        ELSE IF ContainsAny(local_if, {kw_gi00, kw_te, kw_fo, kw_uplink}) THEN "uplink"
        ELSE "access"

\* TopologyMapper._determine_link_type
DetermineLinkType(link_info) ==
    LET local_if == Lower(link_info.local_interface)
        remote_if == Lower(link_info.remote_interface)
    IN  IF Contains(local_if, kw_trunk) \/ Contains(remote_if, kw_trunk) THEN "trunk"
        ELSE IF ContainsAny(local_if, {kw_gi00, kw_te, kw_fo, kw_uplink}) THEN "uplink"
        ELSE IF Contains(local_if, kw_po) \/ Contains(local_if, kw_port_channel)
            THEN "aggregate"
        ELSE "access"

\* dict.get(key, default) on a dict modelled as a function
DictGet(d, key, default) == IF key \in DOMAIN d THEN d[key] ELSE default

NoAddress == 0       \* the empty string where an address is expected

\* TopologyMapper._get_cdp_link_details: the walk of the device-id column
\* fills cache_entries[index] with the key 'device_id' only; no code stores
\* 'ip_address', 'local_interface' or 'remote_interface'.  rows[i] is the
\* neighbor listed under index i.
RECURSIVE CdpLinkInfos(_, _)
CdpLinkInfos(cache_entries, i) ==
    IF i > Len(cache_entries) THEN <<>>
    ELSE LET entry == cache_entries[i]
             link_info ==
                 [neighbor_ip |-> DictGet(entry, "ip_address", NoAddress),
                  local_interface |-> DictGet(entry, "local_interface",
                                              <<"i","f","-">> \o <<Digit(i)>>),
                  remote_interface |-> DictGet(entry, "remote_interface", <<>>)]
         IN  (IF link_info.neighbor_ip # NoAddress THEN <<link_info>> ELSE <<>>)
             \o CdpLinkInfos(cache_entries, i + 1)

GetCdpLinkDetails(rows) ==
    CdpLinkInfos([i \in 1..Len(rows) |-> [device_id |-> rows[i]]], 1)

\* TopologyMapper._get_lldp_link_details
GetLldpLinkDetails == <<>>

\* mutant: _link_exists without its second (reversed) comparison
LinkExistsOneWay(ls, new_link) ==
    \E i \in 1..Len(ls) :
        ls[i].source_id = new_link.source_id /\ ls[i].target_id = new_link.target_id

\* TopologyMapper._link_exists (bidirectional check)
LinkExists(ls, new_link) ==
    \E i \in 1..Len(ls) :
        \/ ls[i].source_id = new_link.source_id /\ ls[i].target_id = new_link.target_id
        \/ ls[i].source_id = new_link.target_id /\ ls[i].target_id = new_link.source_id

\* the loop of _discover_device_links over the link infos, from index i on
\* mutant: the loop without its `neighbor_ip in self.nodes` test
RECURSIVE ProcessLinkInfosAnyTarget(_, _, _, _, _)
ProcessLinkInfosAnyTarget(ip, infos, i, ns, ls) ==
    IF i > Len(infos) THEN ls
    ELSE LET link_info == infos[i]
             link == [source_id |-> ip,
                      target_id |-> link_info.neighbor_ip,
                      source_interface |-> link_info.local_interface,
                      target_interface |-> link_info.remote_interface,
                      link_type |-> DetermineLinkType(link_info)]
         IN  IF ~LinkExists(ls, link)
             THEN ProcessLinkInfosAnyTarget(ip, infos, i + 1, ns, Append(ls, link))
             ELSE ProcessLinkInfosAnyTarget(ip, infos, i + 1, ns, ls)

RECURSIVE ProcessLinkInfos(_, _, _, _, _)
ProcessLinkInfos(ip, infos, i, ns, ls) ==
    IF i > Len(infos) THEN ls
    ELSE LET link_info == infos[i]
             link == [source_id |-> ip,
                      target_id |-> link_info.neighbor_ip,
                      source_interface |-> link_info.local_interface,
                      target_interface |-> link_info.remote_interface,
                      link_type |-> DetermineLinkType(link_info)]
         IN  IF link_info.neighbor_ip \in DOMAIN ns /\ ~LinkExists(ls, link)
             THEN ProcessLinkInfos(ip, infos, i + 1, ns, Append(ls, link))
             ELSE ProcessLinkInfos(ip, infos, i + 1, ns, ls)

\* TopologyMapper._discover_device_links: the link list afterwards; cdp_links
\* and lldp_links are what the two getters returned
DiscoverDeviceLinks(ip, cdp_links, lldp_links, ns, ls) ==
    IF ip \notin DOMAIN ns THEN ls
    ELSE ProcessLinkInfos(ip, cdp_links \o lldp_links, 1, ns, ls)

\* ------------------------------------------------------------------ graph
\* nx.Graph: a node set and a set of undirected edges {u, v} ({u}: self-loop)
EmptyGraph == [nodes |-> {}, edges |-> {}]

Adjacent(g, v) == {w \in g.nodes : {v, w} \in g.edges}

\* the nodes reachable from the set S in g
RECURSIVE ReachFrom(_, _)
ReachFrom(g, S) ==
    LET T == S \cup UNION {Adjacent(g, v) : v \in S}
    IN  IF T = S THEN S ELSE ReachFrom(g, T)

\* nx.connected_components
ConnectedComponents(g) == {ReachFrom(g, {v}) : v \in g.nodes}

\* nx.number_connected_components
NumberConnectedComponents(g) == Cardinality(ConnectedComponents(g))

\* g without node v and its edges
RemoveNode(g, v) ==
    [nodes |-> g.nodes \ {v}, edges |-> {e \in g.edges : v \notin e}]

\* nx.articulation_points: the nodes whose removal disconnects their component
ArticulationPoints(g) ==
    {v \in g.nodes :
        NumberConnectedComponents(RemoveNode(g, v)) > NumberConnectedComponents(g)}

\* mutant: the edges are not added
BuildTopologyGraphNoEdges(g, ns, ls) ==
    [nodes |-> g.nodes \cup DOMAIN ns, edges |-> g.edges]

\* TopologyMapper._build_topology_graph: add_node / add_edge on the graph the
\* engine already holds
BuildTopologyGraph(g, ns, ls) ==
    [nodes |-> g.nodes \cup DOMAIN ns,
     edges |-> g.edges \cup {{ls[i].source_id, ls[i].target_id} : i \in
                        {j \in 1..Len(ls) : ls[j].source_id \in DOMAIN ns
                                            /\ ls[j].target_id \in DOMAIN ns}}]

\* nx.is_connected raises NetworkXPointlessConcept on a graph without nodes
IsConnectedRaises(g) == g.nodes = {}
IsConnected(g) == NumberConnectedComponents(g) = 1

\* mutant: every node with two or more neighbors is taken for a cut vertex
FindSinglePointsOfFailureByDegree(g, ns) ==
    IF IsConnected(g)
    THEN LET aps == SortedSeq({v \in g.nodes :
                                 Cardinality(Adjacent(g, v) \ {v}) >= 2 /\ v \in DOMAIN ns})
         IN  [i \in 1..Len(aps) |-> ns[aps[i]].hostname]
    ELSE <<>>

\* TopologyMapper._find_single_points_of_failure: the hostnames of the
\* articulation points when the graph is connected, else the empty list
FindSinglePointsOfFailure(g, ns) ==
    IF IsConnected(g)
    THEN LET aps == SortedSeq({v \in ArticulationPoints(g) : v \in DOMAIN ns})
         IN  [i \in 1..Len(aps) |-> ns[aps[i]].hostname]
    ELSE <<>>

\* the simple paths of g from s to t, as node sequences
SimplePaths(g, s, t) ==
    {p \in UNION {[1..n -> g.nodes] : n \in 2..Cardinality(g.nodes)} :
        /\ p[1] = s /\ p[Len(p)] = t
        /\ \A i, j \in 1..Len(p) : i # j => p[i] # p[j]
        /\ \A i \in 1..(Len(p) - 1) : {p[i], p[i + 1]} \in g.edges}

PathEdges(p) == {{p[i], p[i + 1]} : i \in 1..(Len(p) - 1)}

\* len(list(nx.edge_disjoint_paths(g, s, t))): the largest number of paths
\* from s to t no two of which share an edge; 0 stands for NetworkXNoPath
EdgeDisjointPaths(g, s, t) ==
    LET paths == SimplePaths(g, s, t)
        Disjoint(P) == \A p, q \in P : p # q => PathEdges(p) \cap PathEdges(q) = {}
        sizes == {Cardinality(P) : P \in {Q \in SUBSET paths : Disjoint(Q)}}
    IN  CHOOSE k \in sizes : \A m \in sizes : m <= k

\* mutant: a pair joined by a single path counts as redundant
CheckRedundantPathsAnyPath(g, ns) ==
    LET core_nodes == {id \in DOMAIN ns : ns[id].role = "core"}
        in_graph == core_nodes \cap g.nodes
        pairs == {[ends |-> {ns[q[1]].hostname, ns[q[2]].hostname},
                   path_count |-> EdgeDisjointPaths(g, q[1], q[2])] :
                     q \in {r \in in_graph \X in_graph : r[1] # r[2]}}
        redundant_pairs == {pair \in pairs : pair.path_count > 0}
    IN  [has_redundancy |-> redundant_pairs # {}, redundant_pairs |-> redundant_pairs]

\* TopologyMapper._check_redundant_paths.  The pairs are those of the core
\* nodes that are in the graph; a pair without a path raises NetworkXNoPath,
\* which is swallowed.  An entry names its two hostnames as a set, since
\* which of them is 'source' follows the order of the nodes dict.
CheckRedundantPaths(g, ns) ==
    LET core_nodes == {id \in DOMAIN ns : ns[id].role = "core"}
        in_graph == core_nodes \cap g.nodes
        pairs == {[ends |-> {ns[q[1]].hostname, ns[q[2]].hostname},
                   path_count |-> EdgeDisjointPaths(g, q[1], q[2])] :
                     q \in {r \in in_graph \X in_graph : r[1] # r[2]}}
        redundant_pairs == {pair \in pairs : pair.path_count > 1}
    IN  [has_redundancy |-> redundant_pairs # {}, redundant_pairs |-> redundant_pairs]

\* TopologyMapper._analyze_topology: <<>> when it raises, else <<analysis>>
AnalyzeTopology(g, ns, ls) ==
    IF IsConnectedRaises(g) THEN <<>>
    ELSE << [total_nodes |-> Cardinality(DOMAIN ns),
             total_links |-> Len(ls),
             connected_components |-> NumberConnectedComponents(g),
             is_connected |-> IsConnected(g),
             single_points_of_failure |-> FindSinglePointsOfFailure(g, ns),
             redundant_paths |-> CheckRedundantPaths(g, ns)] >>

\* ---------------------------------------------------- TopologyMapper calls
\* the subsets of S with at most k elements
RECURSIVE SubsetsUpTo(_, _)
SubsetsUpTo(S, k) ==
    IF k = 0 THEN {{}}
    ELSE LET smaller == SubsetsUpTo(S, k - 1)
         IN  smaller \cup {T \cup {x} : T \in smaller, x \in S}

NoNodes == [ip \in {} |-> 0]

\* the state NetworkDiscovery.__init__ leaves
InitScanner ==
    /\ discovered_devices = <<>>
    /\ scan_pc = "idle"
    /\ network_range = <<>>
    /\ max_workers = 0
    /\ live_hosts = <<>>
    /\ pending = {}
    /\ running = {}
    /\ scan_discovered = <<>>
    /\ scan_probes = [arp |-> 0, tcp |-> 0, snmp |-> 0]
    /\ scan_outcome = "none"
    /\ devices_before = <<>>
    /\ scans = 0

\* no host is switched on for the liveness scan
NoScanWorld ==
    /\ up = {}
    /\ arp_fails = FALSE
    /\ listening = <<>>
    /\ sock_errors = {}

\* an empty vlans table and no VLANManager call
InitManager ==
    /\ vlan_rows = <<>>
    /\ vlan_ret = [op |-> "none", vlan_id |-> 0, outcome |-> "none", vlan |-> <<>>]
    /\ vlan_log = <<>>

\* no classifier is called directly
NoClassifierCall ==
    /\ arg_description = <<>>
    /\ ret_classify = <<>>
    /\ ret_identify = <<>>
    /\ arg_hostname = <<>>
    /\ arg_device_type = ""
    /\ ret_role = <<>>

\* the state TopologyMapper.__init__ leaves, for the mock network given
InitEngine ==
    /\ nodes = NoNodes
    /\ links = <<>>
    /\ topology_graph = EmptyGraph
    /\ pc = "idle"
    /\ seed_devices = {}
    /\ discovered = {}
    /\ to_discover = {}
    /\ probes = [ip \in Addrs |-> 0]
    /\ reported = [ip \in Addrs |-> {}]
    /\ calls = 0
    /\ outcome = "none"
    /\ topology_data = <<>>
    /\ history = <<>>
    /\ export_format = ""
    /\ export_outcome = "none"
    /\ export_text = <<>>
    /\ exports = 0

\* mock networks whose devices list neighbors in their CDP cache only; an
\* engine is called up to MaxRuns times
Init ==
    /\ net \in SubsetsUpTo(IPs \X {"cdp"} \X IPs, MaxEntries)
    /\ mute \in {0} \cup IPs
    /\ cancelled = NotCancelled
    /\ vlan_walk = NoVlanRows
    /\ link_stub = [ip \in IPs |-> <<>>]
    /\ runs = 0
    /\ InitEngine
    /\ NoClassifierCall
    /\ NoScanWorld
    /\ InitScanner
    /\ InitManager

\* TopologyMapper.__init__: a new engine instance replaces the used one
Construct ==
    /\ pc = "done"
    /\ runs < MaxRuns
    /\ nodes' = NoNodes
    /\ links' = <<>>
    /\ topology_graph' = EmptyGraph
    /\ calls' = 0
    /\ pc' = "idle"
    /\ UNCHANGED <<world, seed_devices, discovered, to_discover, probes, reported,
                   runs, outcome, topology_data, history, scanner, exporter, classifier,
                   manager>>

\* discover_topology, lines 101-104: the call starts with fresh local sets
StartDiscover(seeds) ==
    /\ pc \in {"idle", "done"}
    /\ runs < MaxRuns
    /\ seed_devices' = seeds
    /\ discovered' = {}
    /\ to_discover' = seeds
    /\ probes' = [ip \in Addrs |-> 0]
    /\ reported' = [ip \in Addrs |-> {}]
    /\ calls' = calls + 1
    /\ runs' = runs + 1
    /\ pc' = "crawl"
    /\ UNCHANGED <<world, engine, outcome, topology_data, history, scanner, exporter, classifier,
                   manager>>

\* mutant: the neighbor loop without its `not in discovered` test
AddNeighborsUnfiltered(frontier, neighbors, seen) == frontier \cup neighbors

\* mutant: the neighbor loop assigns the frontier instead of adding to it
AddNeighborsReplacing(frontier, neighbors, seen) ==
    {n \in neighbors : n \notin seen}

\* the frontier after the neighbor loop of lines 121-123
AddNeighbors(frontier, neighbors, seen) ==
    frontier \cup {n \in neighbors : n \notin seen}

\* mutant: line 117 left out
MarkDiscoveredNever(seen, ip) == seen

\* the discovered set after line 117
MarkDiscovered(seen, ip) == seen \cup {ip}

\* self.nodes[node.id] = node
PutNode(ns, node) ==
    [ip \in DOMAIN ns \cup {node.id} |-> IF ip = node.id THEN node ELSE ns[ip]]

\* discover_topology, lines 107-126: one iteration of the while loop;
\* current_ip is whatever set.pop() yields, stubbed tells whether the two
\* link-detail getters are replaced by the test double
Crawl(current_ip, stubbed) ==
    /\ pc = "crawl"
    /\ current_ip \in to_discover
    /\ IF current_ip \in discovered
       THEN /\ to_discover' = to_discover \ {current_ip}
            /\ UNCHANGED <<nodes, links, discovered, probes, reported>>
       ELSE \E node \in {DiscoverDeviceNode(current_ip)} :
            /\ probes' = [probes EXCEPT ![current_ip] =
                            IF @ < ProbeCap THEN @ + 1 ELSE @]
            /\ IF node # <<>>
               THEN \E cdp_rows \in {Table(current_ip, "cdp")} :
                    \E neighbors \in {DiscoverNeighbors(cdp_rows,
                                                        Table(current_ip, "lldp"),
                                                        Table(current_ip, "arp"))} :
                    \E new_nodes \in {PutNode(nodes, node[1])} :
                    \E new_discovered \in {MarkDiscovered(discovered, current_ip)} :
                        /\ nodes' = new_nodes
                        /\ discovered' = new_discovered
                        /\ to_discover' = AddNeighbors(to_discover \ {current_ip},
                                                       neighbors, new_discovered)
                        /\ reported' = [reported EXCEPT ![current_ip] = neighbors]
                        /\ links' =
                             IF stubbed
                             THEN DiscoverDeviceLinks(current_ip, link_stub[current_ip],
                                                      <<>>, new_nodes, links)
                             ELSE DiscoverDeviceLinks(current_ip,
                                                      GetCdpLinkDetails(cdp_rows),
                                                      GetLldpLinkDetails,
                                                      new_nodes, links)
               ELSE /\ to_discover' = to_discover \ {current_ip}
                    /\ UNCHANGED <<nodes, links, discovered, reported>>
    /\ UNCHANGED <<world, topology_graph, pc, seed_devices, calls, runs, outcome,
                   topology_data, history, scanner, exporter, classifier, manager>>

\* the loop iteration with the engine's own link-detail getters
CrawlStep(current_ip) == Crawl(current_ip, FALSE)

\* the loop iteration with both link-detail getters replaced by the double
CrawlStepStubbed(current_ip) == Crawl(current_ip, TRUE)

\* the unordered endpoint pairs of a link list
LinkPairs(ls) == {{ls[i].source_id, ls[i].target_id} : i \in 1..Len(ls)}

\* discover_topology, lines 128-134: the loop has ended; build the graph,
\* analyze it and return the analysis (or propagate what the analysis raises)
FinishDiscover ==
    /\ pc = "crawl"
    /\ to_discover = {}
    /\ topology_graph' = BuildTopologyGraph(topology_graph, nodes, links)
    /\ topology_data' = AnalyzeTopology(topology_graph', nodes, links)
    /\ outcome' = IF topology_data' = <<>> THEN "raised" ELSE "returned"
    /\ history' = Append(history,
                         [seeds |-> seed_devices, fresh |-> (calls = 1),
                          node_ids |-> DOMAIN nodes, link_pairs |-> LinkPairs(links),
                          graph |-> topology_graph'])
    /\ pc' = "done"
    /\ UNCHANGED <<world, nodes, links, seed_devices, discovered, to_discover,
                   probes, reported, calls, runs, scanner, exporter, classifier,
                   manager>>

Next ==
    \/ Construct
    \/ \E seeds \in SUBSET IPs : StartDiscover(seeds)
    \/ \E ip \in IPs : CrawlStep(ip)
    \/ FinishDiscover

Spec == Init /\ [][Next]_vars

\* mock networks whose devices list neighbors in any of the three tables; the
\* engine is called once
InitSources ==
    /\ net \in SubsetsUpTo(Slots, MaxEntries)
    /\ mute \in {0} \cup IPs
    /\ cancelled = NotCancelled
    /\ vlan_walk = NoVlanRows
    /\ link_stub = [ip \in IPs |-> <<>>]
    /\ runs = MaxRuns - 1
    /\ InitEngine
    /\ NoClassifierCall
    /\ NoScanWorld
    /\ InitScanner
    /\ InitManager

NextCall ==
    \/ \E seeds \in SUBSET IPs : StartDiscover(seeds)
    \/ \E ip \in IPs : CrawlStep(ip)
    \/ FinishDiscover

SourcesSpec == InitSources /\ [][NextCall]_vars

\* discover_topology runs in one thread and every probe it makes is bounded by
\* its timeout, so a loop iteration that can run does run
LiveSpec == InitSources /\ [][NextCall]_vars /\ WF_vars(\E ip \in IPs : CrawlStep(ip))

\* the format arguments tried (the comparison is case-sensitive)
Formats == {"json", "graphml", "dot", "xml", "JSON"}

\* mutant: an unknown format falls back to the default format
ExportResultDefaultJson(format, g, ns, ls) ==
    IF format \in {"graphml", "dot"}
    THEN {[outcome |-> "returned",
           text |-> << [format |-> format, nodes |-> g.nodes, links |-> g.edges,
                        analysis |-> <<>>] >>]}
    ELSE {[outcome |-> "returned",
           text |-> << [format |-> "json", nodes |-> DOMAIN ns, links |-> LinkPairs(ls),
                        analysis |-> AnalyzeTopology(g, ns, ls)] >>]}

\* TopologyMapper.export_topology: the ways the call can end.
\* json: the nodes, the links and a new analysis (which raises on a graph
\* without nodes).  graphml: nx.write_graphml raises for a node attribute
\* that is a list (vlans), so it returns only for the graph without nodes.
\* dot: write_dot needs pygraphviz; the import raises where it is missing.
\* Anything else: ValueError.
ExportResult(format, g, ns, ls) ==
    IF format = "json"
    THEN LET analysis == AnalyzeTopology(g, ns, ls)
         IN  IF analysis = <<>> THEN {[outcome |-> "raised", text |-> <<>>]}
             ELSE {[outcome |-> "returned",
                    text |-> << [format |-> format, nodes |-> DOMAIN ns,
                                 links |-> LinkPairs(ls), analysis |-> analysis] >>]}
    ELSE IF format = "graphml"
    THEN IF g.nodes # {} THEN {[outcome |-> "raised", text |-> <<>>]}
         ELSE {[outcome |-> "returned",
                text |-> << [format |-> format, nodes |-> g.nodes, links |-> g.edges,
                             analysis |-> <<>>] >>]}
    ELSE IF format = "dot"
    THEN {[outcome |-> "raised", text |-> <<>>],
          [outcome |-> "returned",
           text |-> << [format |-> format, nodes |-> g.nodes, links |-> g.edges,
                        analysis |-> <<>>] >>]}
    ELSE {[outcome |-> "ValueError", text |-> <<>>]}

\* a call of export_topology between discover_topology calls
ExportTopology(format) ==
    /\ pc \in {"idle", "done"}
    /\ exports < MaxExports
    /\ exports' = exports + 1
    /\ export_format' = format
    /\ \E result \in ExportResult(format, topology_graph, nodes, links) :
        /\ export_outcome' = result.outcome
        /\ export_text' = result.text
    /\ UNCHANGED <<world, engine, pc, seed_devices, discovered, to_discover, probes,
                   reported, calls, runs, outcome, topology_data, history, scanner,
                   classifier, manager>>

\* CDP-only networks, one discover_topology call, exports before or after it
InitExport ==
    /\ net \in SubsetsUpTo(IPs \X {"cdp"} \X IPs, MaxEntries)
    /\ mute = 0
    /\ cancelled = NotCancelled
    /\ vlan_walk = NoVlanRows
    /\ link_stub = [ip \in IPs |-> <<>>]
    /\ runs = MaxRuns - 1
    /\ InitEngine
    /\ NoClassifierCall
    /\ NoScanWorld
    /\ InitScanner
    /\ InitManager

NextExport ==
    \/ \E seeds \in SUBSET IPs : StartDiscover(seeds)
    \/ \E ip \in IPs : CrawlStep(ip)
    \/ FinishDiscover
    \/ \E format \in Formats : ExportTopology(format)

ExportSpec == InitExport /\ [][NextExport]_vars

\* the caller may pass the seed that is no address; CDP-only networks, one call
NextSeeds ==
    \/ \E seeds \in SUBSET SeedAddrs : StartDiscover(seeds)
    \/ \E ip \in SeedAddrs : CrawlStep(ip)
    \/ FinishDiscover

InitSeeds ==
    /\ net \in SubsetsUpTo(IPs \X {"cdp"} \X IPs, MaxEntries)
    /\ mute \in {0} \cup IPs
    /\ cancelled = NotCancelled
    /\ vlan_walk = NoVlanRows
    /\ link_stub = [ip \in IPs |-> <<>>]
    /\ runs = MaxRuns - 1
    /\ InitEngine
    /\ NoClassifierCall
    /\ NoScanWorld
    /\ InitScanner
    /\ InitManager

SeedSpec == InitSeeds /\ [][NextSeeds]_vars

\* what the link-detail double can return: up to MaxInfos link infos, each
\* naming a neighbor address and the two interface names
LinkInfos ==
    {[neighbor_ip |-> t,
      local_interface |-> <<"G","i","0","/","1">>,
      remote_interface |-> <<"G","i","0","/","2">>] : t \in IPs}

\* the doubles that return at most k link infos over all devices
RECURSIVE StubsUpTo(_)
StubsUpTo(k) ==
    IF k = 0 THEN {[ip \in IPs |-> <<>>]}
    ELSE LET fewer == StubsUpTo(k - 1)
         IN  fewer \cup {[f EXCEPT ![d] = Append(@, x)] :
                            f \in fewer, d \in IPs, x \in LinkInfos}

\* a network without neighbor tables, an engine whose link-detail getters are
\* the double, up to MaxRuns calls on that one engine
InitLinks ==
    /\ net = {}
    /\ mute = 0
    /\ cancelled = NotCancelled
    /\ vlan_walk = NoVlanRows
    /\ link_stub \in StubsUpTo(MaxInfos)
    /\ runs = 0
    /\ InitEngine
    /\ NoClassifierCall
    /\ NoScanWorld
    /\ InitScanner
    /\ InitManager

NextLinks ==
    \/ \E seeds \in SUBSET IPs : StartDiscover(seeds)
    \/ \E ip \in IPs : CrawlStepStubbed(ip)
    \/ FinishDiscover

LinkSpec == InitLinks /\ [][NextLinks]_vars

\* as LinkSpec, with doubles that can close a ring of the three devices, and
\* one call
InitRing ==
    /\ net = {}
    /\ mute = 0
    /\ cancelled = NotCancelled
    /\ vlan_walk = NoVlanRows
    /\ link_stub \in StubsUpTo(MaxRingInfos)
    /\ runs = MaxRuns - 1
    /\ InitEngine
    /\ NoClassifierCall
    /\ NoScanWorld
    /\ InitScanner
    /\ InitManager

RingSpec == InitRing /\ [][NextLinks]_vars

\* the interface names the double's link info may carry
LocalInterfaceWords ==
    {<<"t","r","u","n","k">>,
     <<"T","e","1">>,
     <<"P","o","1">>,
     <<"P","o","r","t","-","c","h","a","n","n","e","l","1">>,
     <<"G","i","0","/","0">>,
     <<"F","a","0","/","1">>,
     <<"u","p","l","i","n","k">>}

RemoteInterfaces ==
    {<<>>, <<"T","r","u","n","k","2">>, <<"P","o","2">>, <<"T","e","2">>}

\* as LinkSpec, the first device's getters returning one link info to the
\* second with any of the interface names, and one call
InitLinkTypes ==
    /\ net = {}
    /\ mute = 0
    /\ cancelled = NotCancelled
    /\ vlan_walk = NoVlanRows
    /\ \E local \in Texts(LocalInterfaceWords, <<"-">>), remote \in RemoteInterfaces :
           link_stub = [ip \in IPs |->
                           IF ip = 1
                           THEN << [neighbor_ip |-> 2, local_interface |-> local,
                                    remote_interface |-> remote] >>
                           ELSE <<>>]
    /\ runs = MaxRuns - 1
    /\ InitEngine
    /\ NoClassifierCall
    /\ NoScanWorld
    /\ InitScanner
    /\ InitManager

NextLinkTypes ==
    \/ StartDiscover({1, 2})
    \/ \E ip \in IPs : CrawlStepStubbed(ip)
    \/ FinishDiscover

LinkTypeSpec == InitLinkTypes /\ [][NextLinkTypes]_vars

\* ------------------------------------------------ NetworkDiscovery calls
range_lab == <<"1","0",".","0",".","0",".","0","/","3","0">>
range_lab2 == <<"1","0",".","0",".","0",".","5","/","3","0">>
range_bad_octet == <<"3","0","0",".","1",".","1",".","0","/","2","4">>
range_bad_prefix == <<"1","0",".","0",".","0",".","0","/","3","3">>
range_three_octets == <<"1","0",".","0",".","0","/","2","4">>

\* the network_range arguments tried
Ranges == {range_lab, range_lab2, range_bad_octet, range_bad_prefix, range_three_octets}

\* the host addresses of the two well-formed ranges
ScanAddrs == {<<10, 0, 0, 1>>, <<10, 0, 0, 2>>, <<10, 0, 0, 5>>, <<10, 0, 0, 6>>}

\* NetworkDiscovery._snmp_get: a host answers when it is switched on and is
\* not the silent one
ScanSnmpGet(ip, oid) ==
    IF ip \notin up \/ ip[4] = mute THEN <<>>
    ELSE CASE oid = "sysName" -> << <<"h","o","s","t">> \o <<Digit(ip[4])>> >>
           [] oid = "sysDescr" -> << <<"C","i","s","c","o"," ","I","O","S">> >>
           [] OTHER -> << <<"x">> >>

\* the rows of the VLAN table walk of the host at ip
ScanVlanWalk(ip) ==
    IF ip \notin up \/ ip[4] = mute \/ ip[4] \notin IPs THEN <<>> ELSE vlan_walk[ip[4]]

\* NetworkDiscovery._get_vlans_snmp: list(set(...)) of the indices in
\* 1..4094; the order of the list is the set's, so the set stands for it
GetVlansSnmp(rows) ==
    {rows[i] : i \in {j \in DOMAIN rows : 1 <= rows[j] /\ rows[j] <= 4094}}

\* NetworkDiscovery.DEVICE_PATTERNS, in dict order
DEVICE_PATTERNS ==
    << [manufacturer |-> "Cisco",
        patterns |-> {<<"C","i","s","c","o">>, <<"I","O","S">>,
                      <<"C","a","t","a","l","y","s","t">>}],
       [manufacturer |-> "Juniper",
        patterns |-> {<<"J","u","n","i","p","e","r">>, <<"J","U","N","O","S">>}],
       [manufacturer |-> "Arista",
        patterns |-> {<<"A","r","i","s","t","a">>, <<"E","O","S">>}],
       [manufacturer |-> "Hp",
        patterns |-> {<<"H","P">>, <<"P","r","o","C","u","r","v","e">>,
                      <<"A","r","u","b","a">>}],
       [manufacturer |-> "Dell",
        patterns |-> {<<"D","e","l","l">>, <<"F","o","r","c","e","1","0">>}],
       [manufacturer |-> "Mikrotik",
        patterns |-> {<<"M","i","k","r","o","T","i","k">>,
                      <<"R","o","u","t","e","r","O","S">>}] >>

\* NetworkDiscovery._identify_device: <<device_type, manufacturer>>
IdentifyDevice(description) ==
    LET Chain(d) ==
            LET device_type ==
                    IF ContainsAny(d, {kw_switch, kw_catalyst}) THEN "switch"
                    ELSE IF ContainsAny(d, {kw_router, kw_ios_xr}) THEN "router"
                    ELSE IF ContainsAny(d, {kw_firewall, kw_asa, <<"p","i","x">>})
                        THEN "firewall"
                    ELSE IF ContainsAny(d, {kw_access_point, kw_ap}) THEN "access_point"
                    ELSE "network_device"
                hits == {i \in 1..Len(DEVICE_PATTERNS) :
                            \E pat \in DEVICE_PATTERNS[i].patterns : Contains(d, Lower(pat))}
            IN  IF hits = {} THEN <<"unknown", "unknown">>
                ELSE <<device_type,
                       DEVICE_PATTERNS[CHOOSE i \in hits : \A j \in hits : i <= j].manufacturer>>
    IN  CHOOSE r \in {Chain(description_lower) :
                        description_lower \in {Lower(description)}} : TRUE

\* NetworkDiscovery._discover_device: the device it returns (it always returns
\* one: _snmp_discovery's dict is never empty, reverse DNS has no entry for
\* the mock hosts, and device_type is set by _identify_device so the service
\* probe is not reached)
DiscoverDevice(ip, mac) ==
    LET hostname == ScanSnmpGet(ip, "sysName")
        tm == IdentifyDevice(OrElse(ScanSnmpGet(ip, "sysDescr"), <<>>))
    IN  [ip_address |-> ip, mac_address |-> mac, hostname |-> hostname,
         device_type |-> tm[1], manufacturer |-> tm[2],
         vlans |-> GetVlansSnmp(ScanVlanWalk(ip))]

\* the SNMP GETs of _snmp_discovery's loop over five OIDs
SnmpGetsPerDevice == 5

\* NetworkDiscovery._is_host_alive: the ports tried, in order
common_ports == <<22, 23, 80, 443, 161>>

\* connect_ex((ip, port)) returns 0: the host accepts on the port and neither
\* socket() nor the connect raises (an exception is swallowed, line 151)
Accepts(ip, port) == port \in listening[ip] /\ port \notin sock_errors

\* the connects _is_host_alive makes for ip: up to the first accepting port
ConnectsMade(ip) ==
    LET accepting == {k \in 1..Len(common_ports) : Accepts(ip, common_ports[k])}
    IN  IF accepting = {} THEN Len(common_ports)
        ELSE CHOOSE k \in accepting : \A j \in accepting : k <= j

\* mutant: only the first port is tried
IsHostAliveFirstPort(ip) == Accepts(ip, common_ports[1])

IsHostAlive(ip) == \E k \in 1..Len(common_ports) : Accepts(ip, common_ports[k])

\* the connects made for the addresses of q together
RECURSIVE TotalConnects(_)
TotalConnects(q) ==
    IF q = <<>> THEN 0 ELSE ConnectsMade(Head(q)) + TotalConnects(Tail(q))

\* an address that is no host of the mock world neither answers nor accepts
Known(q) == SelectSeq(q, LAMBDA a : a \in ScanAddrs)

\* NetworkDiscovery._arp_scan: the live hosts and the probes made.  When the
\* ARP request can be sent, the hosts of the network that are switched on
\* answer; when sending raises, every host address of the network is tried
\* by TCP connects.
ArpScan(network) ==
    IF ~arp_fails
    THEN [live |-> LET on == SelectSeq(Known(NetworkAddresses(network)),
                                        LAMBDA a : a \in up)
                   IN  [i \in 1..Len(on) |-> [ip |-> on[i], mac |-> <<on[i]>>]] \o <<>>,
          arp |-> 1, tcp |-> 0]
    ELSE LET hosts == NetworkHosts(network)
             alive == SelectSeq(Known(hosts), IsHostAlive)
         IN  [live |-> [i \in 1..Len(alive) |-> [ip |-> alive[i], mac |-> <<>>]] \o <<>>,
              arp |-> 1,
              tcp |-> TotalConnects(Known(hosts))
                      + Len(common_ports) * (Len(hosts) - Len(Known(hosts)))]

\* discover_network, lines 78-96: parse the range (ValueError when it is
\* malformed), scan for live hosts, create the pool (ThreadPoolExecutor
\* raises ValueError for max_workers <= 0) and submit one future per live host
DiscoverNetwork(range, workers) ==
    /\ scan_pc \in {"idle", "done"}
    /\ scans < MaxScans
    /\ scans' = scans + 1
    /\ network_range' = range
    /\ max_workers' = workers
    /\ devices_before' = discovered_devices
    /\ scan_discovered' = <<>>
    /\ running' = {}
    /\ \E network \in {IpNetwork(range)} :
        IF network = <<>>
        THEN /\ scan_outcome' = "ValueError"
             /\ scan_pc' = "done"
             /\ live_hosts' = <<>>
             /\ pending' = {}
             /\ scan_probes' = [arp |-> 0, tcp |-> 0, snmp |-> 0]
        ELSE \E found \in {ArpScan(network[1])} :
             /\ live_hosts' = found.live
             /\ scan_probes' = [arp |-> found.arp, tcp |-> found.tcp, snmp |-> 0]
             /\ IF workers <= 0
                THEN /\ scan_outcome' = "ValueError"
                     /\ scan_pc' = "done"
                     /\ pending' = {}
                ELSE /\ scan_outcome' = "none"
                     /\ scan_pc' = "pool"
                     /\ pending' = 1..Len(found.live)
    /\ UNCHANGED <<world, mapper, discovered_devices>>

\* mutant: a future starts although every worker is busy
ProbeStartUnbounded(i) ==
    /\ scan_pc = "pool"
    /\ i \in pending
    /\ \A j \in pending : i <= j
    /\ pending' = pending \ {i}
    /\ running' = running \cup {i}
    /\ scan_probes' = [scan_probes EXCEPT !.snmp = @ + SnmpGetsPerDevice]
    /\ UNCHANGED <<world, mapper, discovered_devices, scan_pc, network_range, max_workers,
                   live_hosts, scan_discovered, scan_outcome, devices_before, scans>>

\* a pool worker takes the first waiting future (the executor's work queue is
\* first in, first out) and starts _discover_device
ProbeStart(i) ==
    /\ scan_pc = "pool"
    /\ i \in pending
    /\ \A j \in pending : i <= j
    /\ Cardinality(running) < max_workers
    /\ pending' = pending \ {i}
    /\ running' = running \cup {i}
    /\ scan_probes' = [scan_probes EXCEPT !.snmp = @ + SnmpGetsPerDevice]
    /\ UNCHANGED <<world, mapper, discovered_devices, scan_pc, network_range, max_workers,
                   live_hosts, scan_discovered, scan_outcome, devices_before, scans>>

\* _discover_device returns; as_completed yields the future and lines 99-103
\* append the device
ProbeFinish(i) ==
    /\ scan_pc = "pool"
    /\ i \in running
    /\ running' = running \ {i}
    /\ scan_discovered' =
           IF cancelled.scanner = scans THEN scan_discovered
           ELSE Append(scan_discovered,
                       DiscoverDevice(live_hosts[i].ip, live_hosts[i].mac))
    /\ UNCHANGED <<world, mapper, discovered_devices, scan_pc, network_range, max_workers,
                   live_hosts, pending, scan_probes, scan_outcome, devices_before, scans>>

\* discover_network, lines 108-109: every future is done; store and return
ScanReturn ==
    /\ scan_pc = "pool"
    /\ pending = {}
    /\ running = {}
    /\ IF cancelled.scanner = scans
       THEN /\ scan_outcome' = "KeyboardInterrupt"
            /\ UNCHANGED discovered_devices
       ELSE /\ scan_outcome' = "returned"
            /\ discovered_devices' = scan_discovered
    /\ scan_pc' = "done"
    /\ UNCHANGED <<world, mapper, network_range, max_workers, live_hosts, pending,
                   running, scan_discovered, scan_probes, devices_before, scans>>

\* the caller interrupts discover_network while it waits in as_completed:
\* KeyboardInterrupt passes `except Exception` (line 104) and leaves the with
\* block, whose exit is shutdown(wait=True): the workers go on taking the
\* queued futures, nobody collects the devices, and the exception leaves the
\* call when the last future is done (ScanReturn)
CancelScan ==
    /\ scan_pc = "pool"
    /\ cancelled.scanner # scans
    /\ cancelled' = [cancelled EXCEPT !.scanner = scans]
    /\ UNCHANGED <<net, mute, link_stub, vlan_walk, up, arp_fails, listening,
                   sock_errors, mapper, scanner>>

\* the port sets a switched-on host may accept on
PortSets == {{}, {443, 161}}

\* a mock network for the liveness scan and a new NetworkDiscovery
InitScan ==
    /\ net = {}
    /\ mute \in {0, 1}
    /\ cancelled = NotCancelled
    /\ vlan_walk = NoVlanRows
    /\ link_stub = [ip \in IPs |-> <<>>]
    /\ up \in SUBSET ScanAddrs
    /\ arp_fails \in BOOLEAN
    /\ \E ports \in PortSets :
           listening = [a \in ScanAddrs |-> IF a \in up THEN ports ELSE {}]
    /\ sock_errors = {}
    /\ runs = 0
    /\ InitEngine
    /\ NoClassifierCall
    /\ InitScanner
    /\ InitManager

\* the max_workers of a call that passes none
DefaultMaxWorkers == 50

NextScan ==
    \/ \E range \in Ranges, workers \in (0..MaxWorkers) \cup {DefaultMaxWorkers} :
           DiscoverNetwork(range, workers)
    \/ \E i \in 1..Cardinality(ScanAddrs) : ProbeStart(i)
    \/ \E i \in 1..Cardinality(ScanAddrs) : ProbeFinish(i)
    \/ ScanReturn

ScanSpec == InitScan /\ [][NextScan]_vars

\* the caller interrupts discover_topology inside its loop.  Raised inside
\* one of the bare `except:` blocks that wrap every SNMP operation (lines 221,
\* 247, 277, 406, 438, 686) the KeyboardInterrupt is swallowed and the loop
\* goes on; raised anywhere else it leaves the call.
CancelDiscover ==
    /\ pc = "crawl"
    /\ cancelled.mapper # runs
    /\ cancelled' = [cancelled EXCEPT !.mapper = runs]
    /\ \E swallowed \in BOOLEAN :
        IF swallowed
        THEN UNCHANGED <<pc, outcome, topology_data>>
        ELSE /\ pc' = "done"
             /\ outcome' = "KeyboardInterrupt"
             /\ topology_data' = <<>>
    /\ UNCHANGED <<net, mute, link_stub, vlan_walk, up, arp_fails, listening,
                   sock_errors, engine, seed_devices, discovered, to_discover, probes,
                   reported, calls, runs,
                   history, exporter, classifier, scanner, manager>>

\* a chain of three devices crawled from its first, and a scan of the lab
\* range with two or four hosts switched on; the caller may interrupt both
InitCancel ==
    /\ net = {<<1, "cdp", 2>>, <<2, "cdp", 3>>}
    /\ mute = 0
    /\ cancelled = NotCancelled
    /\ vlan_walk = NoVlanRows
    /\ link_stub = [ip \in IPs |-> <<>>]
    /\ up \in {{<<10, 0, 0, 1>>, <<10, 0, 0, 2>>}, ScanAddrs}
    /\ arp_fails = FALSE
    /\ listening = [a \in ScanAddrs |-> {}]
    /\ sock_errors = {}
    /\ runs = MaxRuns - 1
    /\ InitEngine
    /\ NoClassifierCall
    /\ InitScanner
    /\ InitManager

NextCancel ==
    \/ StartDiscover({1})
    \/ \E ip \in IPs : CrawlStep(ip)
    \/ FinishDiscover
    \/ CancelDiscover
    \/ \E workers \in 1..MaxWorkers : DiscoverNetwork(range_lab, workers)
    \/ \E i \in 1..Cardinality(ScanAddrs) : ProbeStart(i)
    \/ \E i \in 1..Cardinality(ScanAddrs) : ProbeFinish(i)
    \/ ScanReturn
    \/ CancelScan

CancelSpec == InitCancel /\ [][NextCancel]_vars

\* scans of the two lab ranges by ARP or by the TCP fallback: the first two
\* hosts accept on any of three port sets (8080 is no port the scan tries),
\* the others on 443; sockets may raise on one port
FallbackPortSets == {{}, {161}, {8080}}

InitFallback ==
    /\ net = {}
    /\ mute = 0
    /\ cancelled = NotCancelled
    /\ vlan_walk = NoVlanRows
    /\ link_stub = [ip \in IPs |-> <<>>]
    /\ up \in {{}, {<<10, 0, 0, 1>>, <<10, 0, 0, 2>>, <<10, 0, 0, 5>>}, ScanAddrs}
    /\ arp_fails \in BOOLEAN
    /\ \E first \in FallbackPortSets, second \in FallbackPortSets :
           listening = [a \in ScanAddrs |->
                           IF a \notin up THEN {}
                           ELSE IF a = <<10, 0, 0, 1>> THEN first
                           ELSE IF a = <<10, 0, 0, 2>> THEN second
                           ELSE {443}]
    /\ sock_errors \in {{}, {22}, {161}, {443}}
    /\ runs = 0
    /\ InitEngine
    /\ NoClassifierCall
    /\ InitScanner
    /\ InitManager

NextFallback ==
    \/ \E range \in {range_lab, range_lab2} : DiscoverNetwork(range, DefaultMaxWorkers)
    \/ \E i \in 1..Cardinality(ScanAddrs) : ProbeStart(i)
    \/ \E i \in 1..Cardinality(ScanAddrs) : ProbeFinish(i)
    \/ ScanReturn

FallbackSpec == InitFallback /\ [][NextFallback]_vars

\* ------------------------------------------------ calls of the classifiers
\* the words the texts tried are made of
DescriptionWords ==
    {<<"C","i","s","c","o">>,
     <<"I","O","S">>,
     <<"X","R">>,
     <<"J","U","N","O","S">>,
     <<"A","r","i","s","t","a">>,
     <<"H","P">>,
     <<"A","r","u","b","a">>,
     <<"D","e","l","l">>,
     <<"R","o","u","t","e","r","O","S">>,
     <<"s","w","i","t","c","h">>,
     <<"R","o","u","t","e","r">>,
     <<"A","S","A">>,
     <<"e","x">>,
     <<"m","x">>,
     <<"L","i","n","u","x">>}

HostnameWords ==
    {<<"c","o","r","e">>,
     <<"B","a","c","k","b","o","n","e">>,
     <<"d","i","s","t">>,
     <<"a","c","c">>,
     <<"e","d","g","e">>,
     <<"d","m","z">>,
     <<"s","w","1">>,
     <<"s","r","v">>}

Descriptions == Texts(DescriptionWords, <<" ">>)
Hostnames == Texts(HostnameWords, <<"-">>)

\* the device types _identify_device_type, _identify_device and
\* _identify_device_by_services can hand on, and those _determine_device_role
\* tests for
DeviceTypes ==
    {"switch", "router", "firewall", "access_point", "network_device", "unknown",
     "server", "workstation", "pc", "laptop"}

\* TopologyMapper._identify_device_type(arg_description)
IdentifyDeviceTypeCall ==
    /\ ret_classify' = <<IdentifyDeviceType(arg_description)>>
    /\ UNCHANGED <<world, engine, pc, seed_devices, discovered, to_discover, probes,
                   reported, calls, runs, outcome, topology_data, history, exporter,
                   scanner, arg_description, ret_identify, arg_hostname,
                   arg_device_type, ret_role, manager>>

\* NetworkDiscovery._identify_device(arg_description, object_id)
IdentifyDeviceCall ==
    /\ ret_identify' = <<IdentifyDevice(arg_description)>>
    /\ UNCHANGED <<world, engine, pc, seed_devices, discovered, to_discover, probes,
                   reported, calls, runs, outcome, topology_data, history, exporter,
                   scanner, arg_description, ret_classify, arg_hostname,
                   arg_device_type, ret_role, manager>>

\* TopologyMapper._determine_device_role(arg_hostname, arg_device_type, ip)
DetermineDeviceRoleCall ==
    /\ ret_role' = <<DetermineDeviceRole(arg_hostname, arg_device_type)>>
    /\ UNCHANGED <<world, engine, pc, seed_devices, discovered, to_discover, probes,
                   reported, calls, runs, outcome, topology_data, history, exporter,
                   scanner, arg_description, ret_classify, ret_identify, arg_hostname,
                   arg_device_type, manager>>

\* no network, no call of the engine or of the scanner
InitIdle ==
    /\ net = {}
    /\ mute = 0
    /\ cancelled = NotCancelled
    /\ vlan_walk = NoVlanRows
    /\ link_stub = [ip \in IPs |-> <<>>]
    /\ runs = 0
    /\ InitEngine
    /\ NoScanWorld
    /\ InitScanner
    /\ InitManager

\* the two classifiers applied to any description
InitClassify ==
    /\ InitIdle
    /\ arg_description \in Descriptions
    /\ ret_classify = <<>>
    /\ ret_identify = <<>>
    /\ arg_hostname = <<>>
    /\ arg_device_type = ""
    /\ ret_role = <<>>

NextClassify == IdentifyDeviceTypeCall \/ IdentifyDeviceCall

ClassifySpec == InitClassify /\ [][NextClassify]_vars

\* _determine_device_role applied to any hostname and device type
InitRole ==
    /\ InitIdle
    /\ arg_description = <<>>
    /\ ret_classify = <<>>
    /\ ret_identify = <<>>
    /\ arg_hostname \in Hostnames
    /\ arg_device_type \in DeviceTypes
    /\ ret_role = <<>>

NextRole == DetermineDeviceRoleCall

RoleSpec == InitRole /\ [][NextRole]_vars

\* the last indices a VLAN table walk may deliver, and the walks of at most
\* MaxVlanRows rows
VlanIndices == {0, 1, 4094, 4095, 70000}
VlanWalks == UNION {[1..n -> VlanIndices] : n \in 0..MaxVlanRows}

\* a mapper call and a scan of one network whose first host delivers any
\* VLAN walk and whose second host delivers a fixed one
InitVlans ==
    /\ net \in {{}, {<<1, "cdp", 2>>}}
    /\ mute = 0
    /\ cancelled = NotCancelled
    /\ link_stub = [ip \in IPs |-> <<>>]
    /\ \E walk \in VlanWalks :
           vlan_walk = [ip \in IPs |-> CASE ip = 1 -> walk
                                        [] ip = 2 -> <<70000, 4094, 0, 1, 4094>>
                                        [] OTHER -> <<>>]
    /\ up = {<<10, 0, 0, 1>>, <<10, 0, 0, 2>>}
    /\ arp_fails = FALSE
    /\ listening = [a \in ScanAddrs |-> IF a \in up THEN {22} ELSE {}]
    /\ sock_errors = {}
    /\ runs = MaxRuns - 1
    /\ InitEngine
    /\ NoClassifierCall
    /\ InitScanner
    /\ InitManager

NextVlans ==
    \/ StartDiscover({1})
    \/ \E ip \in IPs : CrawlStep(ip)
    \/ FinishDiscover
    \/ \E workers \in 1..MaxWorkers : DiscoverNetwork(range_lab, workers)
    \/ \E i \in 1..Cardinality(ScanAddrs) : ProbeStart(i)
    \/ \E i \in 1..Cardinality(ScanAddrs) : ProbeFinish(i)
    \/ ScanReturn

VlanSpec == InitVlans /\ [][NextVlans]_vars

\* ----------------------------------------------------- large ARP tables
\* the rows of device 1's ARP table: some of the ARP-only hosts and possibly
\* the row that is no address
ArpTables ==
    {ArpHosts, ArpHosts \ {11}, ArpHosts \ {11, 12}, ArpHosts \ {11, 12, 13},
     ArpHosts \cup {BadSeed}, (ArpHosts \ {11}) \cup {BadSeed}}

\* device 1 has one of these ARP tables and possibly a CDP neighbor; one call
InitArp ==
    /\ \E rows \in ArpTables, cdp \in SUBSET {<<1, "cdp", 2>>} :
           net = {<<1, "arp", t>> : t \in rows} \cup cdp
    /\ mute \in {0, 1}
    /\ cancelled = NotCancelled
    /\ vlan_walk = NoVlanRows
    /\ link_stub = [ip \in IPs |-> <<>>]
    /\ runs = MaxRuns - 1
    /\ InitEngine
    /\ NoClassifierCall
    /\ NoScanWorld
    /\ InitScanner
    /\ InitManager

NextArp ==
    \/ StartDiscover({1})
    \/ \E ip \in Addrs : CrawlStep(ip)
    \/ FinishDiscover

ArpSpec == InitArp /\ [][NextArp]_vars

\* ------------------------------------------------------------ VLANManager
\* the arguments tried
VlanIds == {100, 200}
VlanNames == {"Test VLAN", "Duplicate", "Updated VLAN"}

\* VLAN.query.filter_by(vlan_id=vlan_id).first(): the index of the first row
\* with that vlan_id, 0 for None
FirstRow(rows, vlan_id) ==
    LET hits == {i \in 1..Len(rows) : rows[i].vlan_id = vlan_id}
    IN  IF hits = {} THEN 0 ELSE CHOOSE i \in hits : \A j \in hits : i <= j

\* mutant: create_vlan without the test for an existing VLAN
CreateVlanUnchecked(vlan_id, name, description) ==
    /\ Len(vlan_log) < MaxVlanCalls
    /\ \E vlan \in {[vlan_id |-> vlan_id, name |-> name, description |-> description]} :
        /\ vlan_rows' = Append(vlan_rows, vlan)
        /\ vlan_log' = Append(vlan_log, [op |-> "create", vlan |-> vlan])
        /\ vlan_ret' = [op |-> "create", vlan_id |-> vlan_id,
                         outcome |-> "returned", vlan |-> <<vlan>>]
    /\ UNCHANGED <<world, engine, pc, seed_devices, discovered, to_discover, probes,
                   reported, calls, runs, outcome, topology_data, history, exporter,
                   classifier, scanner>>

\* VLANManager.create_vlan
CreateVlan(vlan_id, name, description) ==
    /\ Len(vlan_log) < MaxVlanCalls
    /\ \E vlan \in {[vlan_id |-> vlan_id, name |-> name, description |-> description]} :
        IF FirstRow(vlan_rows, vlan_id) # 0
        THEN /\ vlan_ret' = [op |-> "create", vlan_id |-> vlan_id,
                              outcome |-> "ValueError", vlan |-> <<>>]
             /\ UNCHANGED <<vlan_rows, vlan_log>>
        ELSE /\ vlan_rows' = Append(vlan_rows, vlan)
             /\ vlan_log' = Append(vlan_log, [op |-> "create", vlan |-> vlan])
             /\ vlan_ret' = [op |-> "create", vlan_id |-> vlan_id,
                              outcome |-> "returned", vlan |-> <<vlan>>]
    /\ UNCHANGED <<world, engine, pc, seed_devices, discovered, to_discover, probes,
                   reported, calls, runs, outcome, topology_data, history, exporter,
                   classifier, scanner>>

\* VLANManager.delete_vlan
DeleteVlan(vlan_id) ==
    /\ Len(vlan_log) < MaxVlanCalls
    /\ \E k \in {FirstRow(vlan_rows, vlan_id)} :
        IF k = 0
        THEN /\ vlan_ret' = [op |-> "delete", vlan_id |-> vlan_id,
                              outcome |-> "ValueError", vlan |-> <<>>]
             /\ UNCHANGED <<vlan_rows, vlan_log>>
        ELSE /\ vlan_rows' = SubSeq(vlan_rows, 1, k - 1)
                               \o SubSeq(vlan_rows, k + 1, Len(vlan_rows))
             /\ vlan_log' = Append(vlan_log, [op |-> "delete", vlan |-> vlan_rows[k]])
             /\ vlan_ret' = [op |-> "delete", vlan_id |-> vlan_id,
                              outcome |-> "returned", vlan |-> <<>>]
    /\ UNCHANGED <<world, engine, pc, seed_devices, discovered, to_discover, probes,
                   reported, calls, runs, outcome, topology_data, history, exporter,
                   classifier, scanner>>

\* VLANManager.update_vlan
UpdateVlan(vlan_id, name, description) ==
    /\ Len(vlan_log) < MaxVlanCalls
    /\ \E k \in {FirstRow(vlan_rows, vlan_id)} :
        IF k = 0
        THEN /\ vlan_ret' = [op |-> "update", vlan_id |-> vlan_id,
                              outcome |-> "ValueError", vlan |-> <<>>]
             /\ UNCHANGED <<vlan_rows, vlan_log>>
        ELSE \E vlan \in {[vlan_rows[k] EXCEPT !.name = name,
                                                !.description = description]} :
             /\ vlan_rows' = [vlan_rows EXCEPT ![k] = vlan]
             /\ vlan_log' = Append(vlan_log, [op |-> "update", vlan |-> vlan])
             /\ vlan_ret' = [op |-> "update", vlan_id |-> vlan_id,
                              outcome |-> "returned", vlan |-> <<vlan>>]
    /\ UNCHANGED <<world, engine, pc, seed_devices, discovered, to_discover, probes,
                   reported, calls, runs, outcome, topology_data, history, exporter,
                   classifier, scanner>>

\* VLANManager.get_vlan
GetVlan(vlan_id) ==
    /\ \E k \in {FirstRow(vlan_rows, vlan_id)} :
        vlan_ret' = IF k = 0
                    THEN [op |-> "get", vlan_id |-> vlan_id,
                          outcome |-> "ValueError", vlan |-> <<>>]
                    ELSE [op |-> "get", vlan_id |-> vlan_id,
                          outcome |-> "returned", vlan |-> <<vlan_rows[k]>>]
    /\ UNCHANGED <<world, engine, pc, seed_devices, discovered, to_discover, probes,
                   reported, calls, runs, outcome, topology_data, history, exporter,
                   classifier, scanner, vlan_rows, vlan_log>>

NextManager ==
    \/ \E vlan_id \in VlanIds, name \in VlanNames : CreateVlan(vlan_id, name, "Test Description")
    \/ \E vlan_id \in VlanIds : DeleteVlan(vlan_id)
    \/ \E vlan_id \in VlanIds, name \in VlanNames :
           UpdateVlan(vlan_id, name, "Updated Description")
    \/ \E vlan_id \in VlanIds : GetVlan(vlan_id)

InitVlanManager ==
    /\ InitIdle
    /\ NoClassifierCall

ManagerSpec == InitVlanManager /\ [][NextManager]_vars

\* ------------------------------------------------------------------ claims
\* C1: discover_topology terminates: from any point inside the crawl loop the
\* frontier eventually becomes empty, whatever the neighbor tables hold and
\* whatever address each pop yields.
C1_CrawlTerminates == (pc = "crawl") ~> (to_discover = {})

\* a crawl that ran to the end on a network where two devices list each other
C1_Witness ==
    /\ pc = "crawl"
    /\ to_discover = {}
    /\ \E a, b \in discovered : a # b /\ b \in reported[a] /\ a \in reported[b]

\* C2: within one call every address is passed to _discover_device_node at
\* most once, and an address that was processed never re-enters the frontier.
C2_ProbedAtMostOnce ==
    /\ \A ip \in IPs : probes[ip] <= 1
    /\ to_discover \cap discovered = {}

\* a processed address was listed again by a device processed after it
C2_Witness ==
    /\ pc = "done"
    /\ seed_devices = {1}
    /\ 1 \in reported[2]
    /\ probes[1] = 1
    /\ probes[2] = 1

\* C3: two calls with the same seeds on the same mock network, either both on
\* a new engine or one right after the other on the same engine, end with the
\* same node ids and the same unordered link pairs.
C3_SameSeedsSameResult ==
    \A i, j \in 1..Len(history) :
        (/\ i < j
         /\ history[i].seeds = history[j].seeds
         /\ \/ history[i].fresh /\ history[j].fresh
            \/ j = i + 1 /\ ~history[j].fresh)
        => /\ history[i].node_ids = history[j].node_ids
           /\ history[i].link_pairs = history[j].link_pairs

\* two calls on new engines, each with two seeds and a neighbor found by crawling
C3_Witness ==
    /\ Len(history) = 2
    /\ history[1].fresh /\ history[2].fresh
    /\ history[1].seeds = history[2].seeds
    /\ Cardinality(history[2].seeds) = 2
    /\ Cardinality(history[2].node_ids) = 3

\* C4: the stored link list holds at most one link per unordered endpoint
\* pair: offering a link (B,A) when (A,B) is stored, or the same link again,
\* leaves the list as long as it was.
C4_OneLinkPerPair == Len(links) = Cardinality(LinkPairs(links))

\* the first call stored the link (a,b); in the second call b was processed
\* again, its link details named a, and the list still has one link
C4_Witness ==
    /\ pc = "done"
    /\ Len(history) = 2
    /\ Len(links) = 1
    /\ \E a, b \in IPs :
        /\ a # b
        /\ links[1].source_id = a /\ links[1].target_id = b
        /\ history[1].link_pairs = {{a, b}}
        /\ b \in discovered
        /\ \E k \in 1..Len(link_stub[b]) : link_stub[b][k].neighbor_ip = a

\* the addresses device ip lists under source s
Listed(ip, s) == {t \in IPs : <<ip, s, t>> \in net}

\* C5 as claimed: the neighbor set returned for a processed device is the
\* result of the first non-empty source in the order CDP, LLDP, MAC/ARP.
C5_FirstNonEmptySourceWins ==
    \A ip \in discovered :
        reported[ip] = IF Listed(ip, "cdp") # {} THEN Listed(ip, "cdp")
                       ELSE IF Listed(ip, "lldp") # {} THEN Listed(ip, "lldp")
                       ELSE Listed(ip, "arp")

\* C5 as amended: the neighbor set returned for a processed device is the
\* union of the CDP and LLDP results when that union is non-empty, and the
\* MAC/ARP result otherwise; MAC/ARP is never combined with the other two.
C5_CdpLldpMergedMacFallback ==
    \A ip \in discovered :
        reported[ip] = IF Listed(ip, "cdp") \cup Listed(ip, "lldp") # {}
                       THEN Listed(ip, "cdp") \cup Listed(ip, "lldp")
                       ELSE Listed(ip, "arp")

\* a processed device that lists one neighbor by CDP and another by LLDP
C5_Witness ==
    /\ pc = "done"
    /\ \E ip \in discovered :
        /\ Listed(ip, "cdp") # {}
        /\ Listed(ip, "lldp") # {}
        /\ Listed(ip, "cdp") # Listed(ip, "lldp")
        /\ Cardinality(reported[ip]) = 2

\* the addresses reachable from S by the neighbor sets the devices return
RECURSIVE Closure(_)
Closure(S) ==
    LET T == S \cup UNION {DiscoverNeighbors(Table(ip, "cdp"), Table(ip, "lldp"),
                                             Table(ip, "arp")) : ip \in S}
    IN  IF T = S THEN S ELSE Closure(T)

\* C6: a call builds its result from nothing: when it has ended, the node
\* map, the link list and the analyzed graph hold only what is reachable from
\* the seeds of that call.
C6_BuiltFromNothing ==
    pc = "done" =>
        /\ DOMAIN nodes \subseteq Closure(seed_devices)
        /\ topology_graph.nodes \subseteq Closure(seed_devices)
        /\ UNION LinkPairs(links) \subseteq Closure(seed_devices)

\* C7: when the analyzed graph is disconnected, the single-points-of-failure
\* answer is not the empty list a connected graph without articulation points
\* gets.
C7_DisconnectedIsSignalled ==
    (pc = "done" /\ outcome = "returned" /\ ~topology_data[1].is_connected)
        => topology_data[1].single_points_of_failure # <<>>

\* C8: when a call has ended, the host that answered no identification GET has
\* no node.
C8_SilentHostOmitted == pc = "done" => mute \notin DOMAIN nodes

\* C9: a call with at least one seed returns an analysis of at least one node
\* and does not raise, whichever host is silent and whatever the tables hold;
\* the silent host's node has the fallback hostname and no location.
C9_NonEmptySeedsReturnReport ==
    (pc = "done" /\ seed_devices # {}) =>
        /\ outcome = "returned"
        /\ topology_data # <<>>
        /\ topology_data[1].total_nodes >= 1
        /\ \A ip \in DOMAIN nodes :
            ip = mute => /\ nodes[ip].location = <<>>
                         /\ nodes[ip].hostname = <<"d","e","v","i","c","e","-">> \o IpStr(ip)

\* a call on a new engine whose only seed is the silent host
C9_Witness ==
    /\ pc = "done"
    /\ calls = 1
    /\ mute # 0
    /\ seed_devices = {mute}
    /\ outcome = "returned"

\* the malformed network_range arguments among those tried
MalformedRanges == {range_bad_octet, range_bad_prefix, range_three_octets}

\* C10: a discover_network call with a malformed range ends with ValueError,
\* has issued no ARP request, TCP connect or SNMP GET, and leaves
\* discovered_devices as it was when the call was entered.
C10_MalformedRangeRejected ==
    (scan_pc = "done" /\ network_range \in MalformedRanges) =>
        /\ scan_outcome = "ValueError"
        /\ scan_probes = [arp |-> 0, tcp |-> 0, snmp |-> 0]
        /\ discovered_devices = devices_before

\* a call with "300.1.1.0/24" on a scanner that holds devices of an earlier call
C10_Witness ==
    /\ scan_pc = "done"
    /\ network_range = range_bad_octet
    /\ scan_outcome = "ValueError"
    /\ devices_before # <<>>
    /\ discovered_devices = devices_before

\* C11: a call whose seed list holds a malformed address ends with an
\* invalid-input error, has probed no seed and has created no node.
C11_MalformedSeedRejected ==
    (pc = "done" /\ BadSeed \in seed_devices) =>
        /\ outcome = "raised"
        /\ \A ip \in Addrs : probes[ip] = 0
        /\ DOMAIN nodes = {}

\* C12: an export_topology call with a format other than json, graphml or dot
\* ends with ValueError, returns no text, and leaves the node map, the link
\* list and the graph as they were.
C12_UnsupportedFormatRejected ==
    [][(exports' = exports + 1 /\ export_format' \notin {"json", "graphml", "dot"})
        => /\ export_outcome' = "ValueError"
           /\ export_text' = <<>>
           /\ engine' = engine]_vars

\* an export with format "xml" of an engine that holds two nodes
C12_Witness ==
    /\ pc = "done"
    /\ Cardinality(DOMAIN nodes) = 2
    /\ export_format = "xml"
    /\ export_outcome = "ValueError"
    /\ export_text = <<>>

\* the VLAN ids of a membership list all lie in 1..4094
VlansInRange(ids) == \A v \in ids : 1 <= v /\ v <= 4094

\* C13: every VLAN id of every stored node and of every discovered device
\* lies in 1..4094, whatever indices the device's VLAN table walk delivers.
C13_VlanIdsInRange ==
    /\ \A id \in DOMAIN nodes : VlansInRange(Range(nodes[id].vlans))
    /\ \A i \in DOMAIN discovered_devices : VlansInRange(discovered_devices[i].vlans)
    /\ \A i \in DOMAIN scan_discovered : VlansInRange(scan_discovered[i].vlans)

\* a node and a device of the host whose walk delivered the indices 0 and
\* 4095 are stored, and so are a node and a device that kept two ids of a
\* walk with the index 70000
C13_Witness ==
    /\ vlan_walk[1] = <<0, 4095>>
    /\ 1 \in DOMAIN nodes /\ nodes[1].vlans = <<>>
    /\ 2 \in DOMAIN nodes /\ nodes[2].vlans = <<1, 4094>>
    /\ \E i, j \in DOMAIN discovered_devices :
        /\ discovered_devices[i].ip_address = <<10, 0, 0, 1>>
        /\ discovered_devices[i].vlans = {}
        /\ discovered_devices[j].ip_address = <<10, 0, 0, 2>>
        /\ discovered_devices[j].vlans = {1, 4094}

\* ls holds a link whose endpoints are a and b
Linked(ls, a, b) ==
    \E i \in 1..Len(ls) :
        \/ ls[i].source_id = a /\ ls[i].target_id = b
        \/ ls[i].source_id = b /\ ls[i].target_id = a

\* C14: when a node A has been processed, the link list holds a link A-B for
\* every neighbor B that A's neighbor tables report and that was discovered
\* before A.
C14_LinkToEveryDiscoveredNeighbor ==
    [][\A a \in IPs :
          (a \in discovered' /\ a \notin discovered)
              => \A b \in reported'[a] \cap discovered : Linked(links', a, b)]_vars

\* the fewest edges of g whose removal leaves no path from s to t
MinEdgeCut(g, s, t) ==
    LET Cuts == {C \in SUBSET g.edges :
                    t \notin ReachFrom([nodes |-> g.nodes, edges |-> g.edges \ C], {s})}
    IN  CHOOSE k \in {Cardinality(C) : C \in Cuts} :
            \A C \in Cuts : k <= Cardinality(C)

\* C15: the redundancy report of a returned analysis lists exactly the
\* unordered pairs of distinct core nodes joined by more than one
\* edge-disjoint path, each with the largest number of such paths as its
\* path_count, and has_redundancy is true exactly when the list is not empty.
C15_RedundantCorePairs ==
    (pc = "done" /\ outcome = "returned") =>
        LET report == topology_data[1].redundant_paths
            core == {id \in DOMAIN nodes : nodes[id].role = "core"}
            expected ==
                {[ends |-> {nodes[pair[1]].hostname, nodes[pair[2]].hostname},
                  path_count |-> MinEdgeCut(topology_graph, pair[1], pair[2])] :
                    pair \in {q \in core \X core :
                                 /\ q[1] < q[2]
                                 /\ MinEdgeCut(topology_graph, q[1], q[2]) > 1}}
        IN  /\ report.redundant_pairs = expected
            /\ report.has_redundancy = (expected # {})

\* the two core nodes joined directly and through the third device: the
\* report shows path_count 2 for the pair
C15_Witness ==
    /\ pc = "done" /\ outcome = "returned"
    /\ topology_graph.edges = {{1, 2}, {2, 3}, {1, 3}}
    /\ topology_data[1].redundant_paths =
          [has_redundancy |-> TRUE,
           redundant_pairs |-> {[ends |-> {SysName[1], SysName[3]}, path_count |-> 2]}]

\* the graph of the stored nodes and of the stored links between them
StoredGraph ==
    [nodes |-> DOMAIN nodes,
     edges |-> {{links[i].source_id, links[i].target_id} : i \in
                   {j \in 1..Len(links) : /\ links[j].source_id \in DOMAIN nodes
                                           /\ links[j].target_id \in DOMAIN nodes}}]

\* some two other nodes of g are joined in g but not in g without v
Separates(g, v) ==
    \E u, w \in g.nodes \ {v} :
        /\ w \in ReachFrom(g, {u})
        /\ w \notin ReachFrom(RemoveNode(g, v), {u})

\* C16: on a connected graph the single points of failure reported are
\* exactly the nodes whose removal disconnects the graph.
C16_SpofAreArticulationPoints ==
    (pc = "done" /\ outcome = "returned" /\ topology_data[1].is_connected) =>
        Range(topology_data[1].single_points_of_failure)
            = {nodes[v].hostname : v \in {u \in DOMAIN nodes : Separates(StoredGraph, u)}}

\* the chain 1 - 2 - 3: the middle device is the one reported
C16_Witness ==
    /\ pc = "done" /\ outcome = "returned"
    /\ topology_graph.edges = {{1, 2}, {2, 3}}
    /\ topology_data[1].is_connected
    /\ topology_data[1].single_points_of_failure = <<SysName[2]>>

\* C17: the summary's connected_components is the number of connected
\* components of the graph of the stored nodes and links, and is_connected
\* is true exactly when that number is 1.
C17_ComponentsOfStoredGraph ==
    (pc = "done" /\ outcome = "returned") =>
        LET count == Cardinality({ReachFrom(StoredGraph, {v}) : v \in DOMAIN nodes})
        IN  /\ topology_data[1].connected_components = count
            /\ topology_data[1].is_connected = (count = 1)

\* three nodes and one link: two components, not connected
C17_Witness ==
    /\ pc = "done" /\ outcome = "returned"
    /\ Cardinality(DOMAIN nodes) = 3
    /\ Len(links) = 1
    /\ links[1].source_id # links[1].target_id
    /\ topology_data[1].connected_components = 2
    /\ ~topology_data[1].is_connected

\* the vendor keywords of _identify_device_type's branches, in their order
MapperVendorRules ==
    << [keywords |-> {kw_cisco}, vendor |-> "Cisco"],
       [keywords |-> {kw_juniper, kw_junos}, vendor |-> "Juniper"],
       [keywords |-> {kw_arista}, vendor |-> "Arista"],
       [keywords |-> {kw_hp, kw_aruba}, vendor |-> "HP"] >>

\* the rules of the mapper's and of the scanner's classifier that d matches
MapperHits(d) ==
    {i \in 1..Len(MapperVendorRules) :
        \E kw \in MapperVendorRules[i].keywords : Contains(d, kw)}

ScannerHits(d) ==
    {i \in 1..Len(DEVICE_PATTERNS) :
        \E pat \in DEVICE_PATTERNS[i].patterns : Contains(d, Lower(pat))}

First(hits) == CHOOSE i \in hits : \A j \in hits : i <= j

\* C18: a classifier returns the vendor of the first rule one of whose
\* keywords occurs in the lower-cased description, whichever device type it
\* returns with it.
C18_FirstMatchingVendorWins ==
    LET d == Lower(arg_description)
    IN  /\ (ret_classify # <<>> /\ MapperHits(d) # {}) =>
               ret_classify[1][2] = MapperVendorRules[First(MapperHits(d))].vendor
        /\ (ret_identify # <<>> /\ ScannerHits(d) # {}) =>
               ret_identify[1][2] = DEVICE_PATTERNS[First(ScannerHits(d))].manufacturer

\* C19: a classifier returns (unknown, unknown) for every description that
\* holds none of its vendor keywords.
C19_NoVendorIsUnknown ==
    LET d == Lower(arg_description)
    IN  /\ (ret_classify # <<>> /\ MapperHits(d) = {}) =>
               ret_classify[1] = <<"unknown", "unknown">>
        /\ (ret_identify # <<>> /\ ScannerHits(d) = {}) =>
               ret_identify[1] = <<"unknown", "unknown">>

\* C20: _determine_device_role returns the role of the first rule that
\* matches, in the order hostname holds a core keyword, a distribution
\* keyword, an access keyword, an edge keyword, device type server or
\* endpoint, device type router (edge) or switch (access), and else access.
C20_RoleByFirstMatchingRule ==
    ret_role # <<>> =>
        LET h == Lower(arg_hostname)
            core == ContainsAny(h, {kw_core, kw_backbone})
            dist == ContainsAny(h, {kw_dist, kw_distribution})
            acc == ContainsAny(h, {kw_access, kw_acc})
            edge == ContainsAny(h, {kw_edge, kw_dmz, kw_internet})
            named == core \/ dist \/ acc \/ edge
            role == ret_role[1]
        IN  /\ core => role = "core"
            /\ (dist /\ ~core) => role = "distribution"
            /\ (acc /\ ~core /\ ~dist) => role = "access"
            /\ (edge /\ ~core /\ ~dist /\ ~acc) => role = "edge"
            /\ (~named /\ arg_device_type = "server") => role = "server"
            /\ (~named /\ arg_device_type \in {"workstation", "pc", "laptop"})
                   => role = "endpoint"
            /\ (~named /\ arg_device_type = "router") => role = "edge"
            /\ (~named /\ arg_device_type \notin
                              {"server", "workstation", "pc", "laptop", "router"})
                   => role = "access"

\* hostname "core-sw1" with device type switch gives core
C20_Witness ==
    /\ arg_hostname = <<"c","o","r","e","-","s","w","1">>
    /\ arg_device_type = "switch"
    /\ ret_role = <<"core">>

\* C21: the type of a stored link is trunk when one of its interface names
\* contains "trunk"; else uplink when the local name matches an uplink
\* pattern; else aggregate when it matches an aggregate pattern; else access.
C21_LinkTypeFirstMatchWins ==
    \A i \in 1..Len(links) :
        LET local_if == Lower(links[i].source_interface)
            remote_if == Lower(links[i].target_interface)
            trunk == Contains(local_if, kw_trunk) \/ Contains(remote_if, kw_trunk)
            uplink == ContainsAny(local_if, {kw_gi00, kw_te, kw_fo, kw_uplink})
            aggregate == ContainsAny(local_if, {kw_po, kw_port_channel})
        IN  /\ trunk => links[i].link_type = "trunk"
            /\ (uplink /\ ~trunk) => links[i].link_type = "uplink"
            /\ (aggregate /\ ~trunk /\ ~uplink) => links[i].link_type = "aggregate"
            /\ (~trunk /\ ~uplink /\ ~aggregate) => links[i].link_type = "access"

\* a stored link whose local interface name matches an uplink and an
\* aggregate pattern is an uplink
C21_Witness ==
    \E i \in 1..Len(links) :
        /\ links[i].source_interface = <<"T","e","1","-","P","o","1">>
        /\ links[i].target_interface = <<>>
        /\ links[i].link_type = "uplink"

\* C22: at most max_workers probes are in flight at any time; when
\* discover_network has returned no probe is waiting or in flight, and the
\* stored list holds exactly one device for every submitted host.
C22_BoundedPoolJoinsAll ==
    /\ scan_pc = "pool" => Cardinality(running) <= max_workers
    /\ (scan_pc = "done" /\ scan_outcome = "returned") =>
           /\ pending = {} /\ running = {}
           /\ Len(discovered_devices) = Len(live_hosts)
           /\ \A i \in 1..Len(live_hosts) :
                  Cardinality({j \in 1..Len(discovered_devices) :
                                 discovered_devices[j].ip_address = live_hosts[i].ip}) = 1

\* a scan with two workers has returned two devices, the host submitted
\* second having completed first
C22_Witness ==
    /\ scan_pc = "done" /\ scan_outcome = "returned"
    /\ max_workers = 2
    /\ Len(live_hosts) = 2
    /\ discovered_devices[1].ip_address = live_hosts[2].ip
    /\ discovered_devices[2].ip_address = live_hosts[1].ip

\* C23: the SNMP identification probes (_discover_device) of two different
\* hosts are never in flight at the same time.
C23_IdentificationSequential ==
    \A i, j \in running : live_hosts[i].ip = live_hosts[j].ip

\* C24: once the caller has cancelled the call in progress, no new probe is
\* issued in that call, neither by discover_topology nor by discover_network.
C24_NoProbeAfterCancel ==
    [][/\ (cancelled.mapper = runs /\ runs' = runs /\ pc = "crawl")
            => probes' = probes
       /\ (cancelled.scanner = scans /\ scans' = scans /\ scan_pc = "pool")
            => scan_probes' = scan_probes]_vars

\* the host addresses of the two lab ranges
LabHosts(range) ==
    IF range = range_lab THEN {<<10, 0, 0, 1>>, <<10, 0, 0, 2>>}
    ELSE {<<10, 0, 0, 5>>, <<10, 0, 0, 6>>}

\* C25: TCP connects are made only when the ARP probe fails as a whole; the
\* scan then finds exactly the host addresses of the range that accept on one
\* of the ports 22, 23, 80, 443, 161 without a socket error, each once, and
\* the scan does not raise.
C25_TcpFallbackOnArpFailure ==
    scan_pc # "idle" =>
        /\ ~arp_fails => scan_probes.tcp = 0
        /\ arp_fails =>
               /\ {live_hosts[i].ip : i \in 1..Len(live_hosts)} =
                      {a \in LabHosts(network_range) :
                          (listening[a] \cap {22, 23, 80, 443, 161}) \ sock_errors # {}}
               /\ \A i, j \in 1..Len(live_hosts) :
                      live_hosts[i].ip = live_hosts[j].ip => i = j
        /\ scan_outcome \in {"none", "returned"}

\* the ARP probe failed and sockets raise on port 22: the host that accepts
\* on port 161 was found by the connects, the host that accepts on 8080 only
\* was not
C25_Witness ==
    /\ arp_fails
    /\ scan_outcome = "returned"
    /\ network_range = range_lab
    /\ sock_errors = {22}
    /\ listening[<<10, 0, 0, 1>>] = {161} /\ listening[<<10, 0, 0, 2>>] = {8080}
    /\ live_hosts = << [ip |-> <<10, 0, 0, 1>>, mac |-> <<>>] >>
    /\ scan_probes.tcp = 10

\* what the logged calls leave stored for vlan_id: <<>> when the last logged
\* call on it is a delete (or there is none), else the VLAN of the create
\* that followed the last delete, with the name and description of the last
\* update after that create
RECURSIVE Stored(_, _)
Stored(log, vlan_id) ==
    IF log = <<>> THEN <<>>
    ELSE LET before == Stored(SubSeq(log, 1, Len(log) - 1), vlan_id)
             last == log[Len(log)]
         IN  IF last.vlan.vlan_id # vlan_id THEN before
             ELSE IF last.op = "delete" THEN <<>>
             ELSE IF last.op = "create" /\ before # <<>> THEN before
             ELSE <<last.vlan>>

\* the table holds one row per vlan_id, the one the logged calls leave, and
\* get_vlan returned it
C26_StoredVlans ==
    /\ \A i, j \in 1..Len(vlan_rows) : vlan_rows[i].vlan_id = vlan_rows[j].vlan_id => i = j
    /\ \A k \in 1..Len(vlan_log) :
           vlan_log[k].op = "create" =>
               Stored(SubSeq(vlan_log, 1, k - 1), vlan_log[k].vlan.vlan_id) = <<>>
    /\ \A vlan_id \in VlanIds :
           Stored(vlan_log, vlan_id) =
               IF FirstRow(vlan_rows, vlan_id) = 0 THEN <<>>
               ELSE <<vlan_rows[FirstRow(vlan_rows, vlan_id)]>>
    /\ vlan_ret.op = "get" =>
           /\ vlan_ret.vlan = Stored(vlan_log, vlan_ret.vlan_id)
           /\ (vlan_ret.outcome = "ValueError") = (vlan_ret.vlan = <<>>)

\* C26: a create_vlan with a vlan_id that is stored raises ValueError and
\* leaves the table as it was; every vlan_id is held by at most one row; and
\* get_vlan returns the VLAN of the first successful create, with its latest
\* update.
C26_VlanIdsUnique ==
    /\ []C26_StoredVlans
    /\ [][(vlan_ret'.op = "create" /\ vlan_ret' # vlan_ret
            /\ \E i \in 1..Len(vlan_rows) : vlan_rows[i].vlan_id = vlan_ret'.vlan_id)
           => (vlan_ret'.outcome = "ValueError" /\ vlan_rows' = vlan_rows)]_vars

\* a second create of a stored vlan_id was rejected after an update: the
\* table still holds the one updated VLAN
C26_Witness ==
    /\ vlan_ret = [op |-> "create", vlan_id |-> 100, outcome |-> "ValueError", vlan |-> <<>>]
    /\ Len(vlan_log) = 2
    /\ vlan_log[2].op = "update"
    /\ vlan_rows = << [vlan_id |-> 100, name |-> "Updated VLAN",
                        description |-> "Updated Description"] >>

\* the valid addresses among the rows of device ip's ARP table
ValidArpRows(ip) == {t \in Addrs : <<ip, "arp", t>> \in net /\ IsValidIp(t)}

\* the first ten of them in walk order
FirstTenArp(ip) ==
    {t \in ValidArpRows(ip) : Cardinality({u \in ValidArpRows(ip) : u < t}) < 10}

\* device ip's CDP and LLDP walks deliver no valid address
NoCdpLldp(ip) ==
    \A t \in Addrs :
        (<<ip, "cdp", t>> \in net \/ <<ip, "lldp", t>> \in net) => ~IsValidIp(t)

\* C27: the MAC/ARP fallback contributes the first 10 valid addresses of the
\* ARP walk and no more, so the probe of one device adds at most 10
\* addresses to the frontier through it.
C27_MacFallbackAtMostTen ==
    /\ [](\A ip \in IPs :
            (reported[ip] # {} /\ NoCdpLldp(ip)) =>
                /\ reported[ip] = FirstTenArp(ip)
                /\ Cardinality(reported[ip]) <= 10)
    /\ [][\A ip \in IPs :
            (probes'[ip] # probes[ip] /\ pc = "crawl" /\ pc' = "crawl"
             /\ NoCdpLldp(ip)) =>
                /\ to_discover' \ to_discover \subseteq FirstTenArp(ip)
                /\ Cardinality(to_discover' \ to_discover) <= 10]_vars

\* a device whose ARP walk delivers twelve valid addresses was probed: ten
\* of them were reported and the call ended with eleven nodes
C27_Witness ==
    /\ pc = "done"
    /\ Cardinality(ValidArpRows(1)) = 12
    /\ NoCdpLldp(1)
    /\ Cardinality(reported[1]) = 10
    /\ Cardinality(DOMAIN nodes) = 11

\* what is reachable from S by following the neighbor lists returned in this
\* call
RECURSIVE ReportedClosure(_)
ReportedClosure(S) ==
    LET T == S \cup UNION {reported[ip] : ip \in S}
    IN  IF T = S THEN S ELSE ReportedClosure(T)

\* C28: when a call has ended, the node ids are exactly the addresses
\* reachable from its seeds through the neighbor lists returned in it; none
\* of them is left in the frontier or unprocessed.
C28_NodesAreReportedClosure ==
    pc = "done" =>
        /\ DOMAIN nodes = ReportedClosure(seed_devices)
        /\ to_discover = {}
        /\ ReportedClosure(seed_devices) \subseteq discovered

\* C29: a call with no seeds on an engine that holds nothing returns an
\* analysis with total_nodes = 0 and total_links = 0 and does not raise, and
\* so does a JSON export of an engine that holds nothing.
C29_EmptyTopologyReport ==
    /\ (pc = "done" /\ seed_devices = {} /\ DOMAIN nodes = {}) =>
           /\ outcome = "returned"
           /\ topology_data # <<>>
           /\ topology_data[1].total_nodes = 0
           /\ topology_data[1].total_links = 0
    /\ (exports > 0 /\ export_format = "json" /\ DOMAIN nodes = {}) =>
           /\ export_outcome = "returned"
           /\ export_text # <<>>
           /\ export_text[1].analysis # <<>>
           /\ export_text[1].analysis[1].total_nodes = 0
           /\ export_text[1].analysis[1].total_links = 0

\* C30: when a call has ended, the graph's vertices are the node ids, its
\* edges are the unordered endpoint pairs of the stored links, every link has
\* both endpoints in the node map, and a returned analysis reports the
\* graph's vertex and edge counts as total_nodes and total_links.
C30_GraphAgreesWithStore ==
    pc = "done" =>
        /\ topology_graph.nodes = DOMAIN nodes
        /\ topology_graph.edges = LinkPairs(links)
        /\ \A i \in 1..Len(links) :
               links[i].source_id \in DOMAIN nodes /\ links[i].target_id \in DOMAIN nodes
        /\ outcome = "returned" =>
               /\ topology_data[1].total_nodes = Cardinality(topology_graph.nodes)
               /\ topology_data[1].total_links = Cardinality(topology_graph.edges)

\* the second call on an engine ended: it stored a second link, one end of
\* which the first call had discovered, and the graph has both edges
C30_Witness ==
    /\ pc = "done" /\ outcome = "returned"
    /\ Len(history) = 2
    /\ Cardinality(history[1].link_pairs) = 1
    /\ Len(links) = 2
    /\ Cardinality(topology_graph.edges) = 2
    /\ Cardinality(topology_graph.nodes) = 3
    /\ topology_data[1].total_links = 2

=============================================================================
